---------------------------- MODULE Spec2Model ----------------------------
(***************************************************************************)
(* Disaster-response simulation core: Environment (world state machine and *)
(* resource ledger), MessageBus (publish/subscribe log), the five agents   *)
(* and the Orchestrator that schedules them.                               *)
(*                                                                         *)
(* Real-valued quantities are kept as integers in hundredths:              *)
(* seismic_level 0..100 stands for 0.0..1.0, rebuild_progress 0..10000     *)
(* for 0.0..100.0.  Random draws of the code are nondeterministic choices  *)
(* over small sets of representative values.                               *)
(***************************************************************************)
EXTENDS Integers, Sequences, FiniteSets, TLC

VARIABLES env, bus, orch, agents, last, ext, thr, obsv

vars == <<env, bus, orch, agents, last, ext, thr, obsv>>

(***************************************************************************)
(* Bounds of the model.                                                    *)
(***************************************************************************)
\* run_cycle calls explored since the last Orchestrator.reset
MaxCycles == 10
\* run_cycle calls explored in an idle environment, where the calls of
\* the environment's operations are explored
MaxIdle == 1
\* cycles of a disaster explored in one behaviour
MaxTicks == 5
\* response ticks of one behaviour whose aftershock draw succeeds
MaxAftershocks == 1
\* response ticks of one behaviour whose road draw succeeds
MaxRoadDraws == 1
\* pauses explored in one behaviour
MaxPauses == 1
\* cycles of one behaviour in which an agent raises
MaxFaults == 1
\* calls from outside the cycle explored in one behaviour
MaxExt == 2
\* random picks of flood / wildfire / other nodes per trigger
MaxExtra == 1
\* edges that one trigger's random draws block
MaxBlock == 1
\* agents whose act raises in one cycle (fault injection)
MaxFail == 1
\* messages sent since the last MessageBus.reset when a cycle starts
MaxLog == 0
\* sends explored on the stand-alone bus
MaxSend == 3
\* ring-buffer capacity of the stand-alone bus
MaxHist == 2
\* largest keep_recent explored on the stand-alone bus
MaxKeep == 1
\* threads that send concurrently
MaxThreads == 2
\* sends per thread
MaxThreadSends == 2
\* cycles of disasters explored when disasters follow one another
MaxStartTicks == 7

Min(a, b) == IF a <= b THEN a ELSE b
Max(a, b) == IF a >= b THEN a ELSE b

\* Python's sequence slice s[-n:] for n >= 0 is the last n entries, except
\* that s[-0:] is s[0:], the whole sequence; for n < 0 it is s[|n|:].
SliceFromNeg(s, n) ==
    IF n = 0 THEN s
    ELSE IF n > 0 THEN
        (IF n >= Len(s) THEN s ELSE SubSeq(s, Len(s) - n + 1, Len(s)))
    ELSE
        (IF -n >= Len(s) THEN << >> ELSE SubSeq(s, 1 - n, Len(s)))

(***************************************************************************)
(* MessageBus                                                              *)
(***************************************************************************)
DefaultMaxHistory == 500

BusNew(maxHistory) ==
    [messages |-> << >>, history |-> << >>, counter |-> 0,
     offsets |-> << >>, max_history |-> maxHistory]

\* a list that grows without bound
PlainAppend(h, m, maxlen) == Append(h, m)

\* deque(maxlen=n).append: the oldest entry is dropped when full
DequeAppend(h, m, maxlen) ==
    IF maxlen = 0 THEN << >>
    ELSE IF Len(h) >= maxlen THEN Append(Tail(h), m)
    ELSE Append(h, m)

NextId(b) == b.counter + 1

BusSend(b, sender, msgType, payload, priority) ==
    LET id == NextId(b)
        msg == [id |-> id, type |-> msgType, sender |-> sender,
                payload |-> payload, priority |-> priority]
    IN [b EXCEPT !.counter = id,
                 !.messages = Append(@, msg),
                 !.history = DequeAppend(@, msg, b.max_history)]

\* a read_all that forgets the cursor
NoCursor(b, c) == 0

\* the cursor stored for a consumer, 0 when it never read
Cursor(b, c) == IF c \in DOMAIN b.offsets THEN b.offsets[c] ELSE 0

NewMessages(b, c) ==
    LET off == Cursor(b, c)
    IN SelectSeq(b.messages, LAMBDA m : m.id > off)

\* one cursor shared by every consumer
SharedOffset(offsets, c, v) ==
    [x \in (DOMAIN offsets) \cup {c} |-> v]

SetOffset(offsets, c, v) ==
    [x \in (DOMAIN offsets) \cup {c} |-> IF x = c THEN v ELSE offsets[x]]

\* read_all: the returned list
ReadAllResult(b, c, clear) ==
    IF clear THEN b.messages ELSE NewMessages(b, c)

\* read_all: the bus afterwards
ReadAllBus(b, c, clear) ==
    IF clear THEN [b EXCEPT !.messages = << >>]
    ELSE IF b.messages # << >>
         THEN [b EXCEPT !.offsets =
                   SetOffset(@, c, b.messages[Len(b.messages)].id)]
         ELSE b

ReadRecent(b, count) == SliceFromNeg(b.history, count)

GetHistory(b, sinceId) == SelectSeq(b.history, LAMBDA m : m.id > sinceId)

ClearOldMessages(b, keepRecent) ==
    IF Len(b.messages) > keepRecent
    THEN [b EXCEPT !.messages = SliceFromNeg(@, keepRecent)]
    ELSE b

BusReset(b) ==
    [b EXCEPT !.messages = << >>, !.history = << >>, !.counter = 0,
              !.offsets = << >>]


(***************************************************************************)
(* WorldGraph: the part of the city graph the model explores.  Node ids    *)
(* and edge indices are those of the source's tables.                      *)
(***************************************************************************)
NodeIds == {0, 2, 3, 9, 23, 26}

Population ==
    [n \in NodeIds |->
        CASE n = 0 -> 3822325 [] n = 2 -> 2679380 [] n = 3 -> 2329764
          [] n = 9 -> 400000 [] n = 23 -> 0 [] n = 26 -> 0]

NodeType ==
    [n \in NodeIds |->
        CASE n \in {0, 2, 3} -> "district_center" [] n = 9 -> "residential"
          [] n \in {23, 26} -> "public_service"]

\* vulnerability factors in tenths
VulnTable ==
    [n \in NodeIds |->
        CASE n = 0 -> [earthquake |-> 12, flood |-> 9, wildfire |-> 5]
          [] n = 2 -> [earthquake |-> 10, flood |-> 11, wildfire |-> 7]
          [] n = 3 -> [earthquake |-> 11, flood |-> 12, wildfire |-> 5]
          [] n = 9 -> [earthquake |-> 10, flood |-> 14, wildfire |-> 5]
          [] n = 23 -> [earthquake |-> 10, flood |-> 10, wildfire |-> 5]
          [] n = 26 -> [earthquake |-> 8, flood |-> 7, wildfire |-> 3]]

\* node['vulnerability'].get(scenario, 1.0), in tenths
Vulnerability(n, scenario) ==
    IF scenario \in DOMAIN VulnTable[n] THEN VulnTable[n][scenario] ELSE 10

EdgeIds == {1, 2, 10, 25, 28, 30}

\* distance in tenths of a kilometre
EdgeTable ==
    [i \in EdgeIds |->
        CASE i = 1 -> [from |-> 0, to |-> 2, distance |-> 70, type |-> "highway"]
          [] i = 2 -> [from |-> 0, to |-> 3, distance |-> 40, type |-> "road"]
          [] i = 10 -> [from |-> 3, to |-> 9, distance |-> 10, type |-> "road"]
          [] i = 25 -> [from |-> 3, to |-> 23, distance |-> 5, type |-> "road"]
          [] i = 28 -> [from |-> 0, to |-> 26, distance |-> 10, type |-> "road"]
          [] i = 30 -> [from |-> 9, to |-> 23, distance |-> 5, type |-> "road"]]

CoastalIds == {3, 4, 6, 19, 9, 8, 11}
DryIds == {2, 4, 6, 17}

(***************************************************************************)
(* Environment                                                             *)
(***************************************************************************)
ResourceNames ==
    {"ambulances", "drones", "medical_kits", "repair_crews", "food_packs"}

DefaultResources ==
    [ambulances |-> 5, drones |-> 3, medical_kits |-> 40,
     repair_crews |-> 2, food_packs |-> 50]

ZeroResources == [k \in ResourceNames |-> 0]

Params ==
    [seismic_threshold |-> 50, aftershock_factor |-> 30,
     road_block_chance |-> 40, rebuild_required |-> 10000,
     rebuild_factor_per_crew |-> 200]

ZeroStats ==
    [total_victims_initial |-> 0, victims_saved |-> 0,
     disasters_completed |-> 0, total_time_steps |-> 0]

EnvNew ==
    [time_step |-> 0, scenario |-> "None", disaster |-> FALSE,
     phase |-> "idle", victims |-> 0, victims_saved |-> 0,
     seismic_level |-> 0, aftershock |-> FALSE, roads_blocked |-> FALSE,
     resources |-> DefaultResources,
     initial_resources |-> DefaultResources,
     resources_used |-> ZeroResources,
     rebuild_progress |-> 0, cooldown_counter |-> 0,
     stats |-> ZeroStats,
     blocked |-> {}, affected_nodes |-> {}, affected_edges |-> {}]

RECURSIVE SumOver(_, _)
SumOver(S, f) ==
    IF S = {} THEN 0
    ELSE LET x == CHOOSE y \in S : TRUE
         IN f[x] + SumOver(S \ {x}, f)

\* the node's victims rounded to the nearest whole number
RoundedVictims(n, scenario, seismic) ==
    LET k == seismic * Vulnerability(n, scenario)
        q == Population[n] \div 1000
        r == Population[n] % 1000
    IN (q * k + (r * k) \div 1000 + 50) \div 100

\* int(population * 0.01 * seismic_level * vulnerability), that is
\* population * seismic * vulnerability \div 100000 with seismic in
\* hundredths and vulnerability in tenths; the product is split so that it
\* stays within 32 bits.  For the nodes and intensities explored the double
\* product of the source cuts to this same whole number.
BaseVictims(n, scenario, seismic) ==
    LET k == seismic * Vulnerability(n, scenario)
        q == Population[n] \div 1000
        r == Population[n] % 1000
    IN (q * k + (r * k) \div 1000) \div 100

\* the nodes a scenario affects; extra holds the nodes whose random draw
\* fell under the scenario's chance
AffectedNodes(scenario, extra) ==
    CASE scenario = "earthquake" -> NodeIds
      [] scenario = "flood" -> {n \in NodeIds : n \in CoastalIds \/ n \in extra}
      [] scenario = "wildfire" -> {n \in NodeIds : n \in DryIds \/ n \in extra}
      [] OTHER -> {n \in NodeIds : n \in extra}

AffectedEdges(affected) ==
    {i \in EdgeIds : EdgeTable[i].from \in affected
                     \/ EdgeTable[i].to \in affected}

\* the (lo, hi) ends of the scenario's random.randint ranges
RandomRange(scenario, k) ==
    CASE scenario = "earthquake" ->
            (CASE k = "ambulances" -> <<3, 8>> [] k = "drones" -> <<1, 4>>
               [] k = "medical_kits" -> <<20, 80>>
               [] k = "repair_crews" -> <<1, 4>>
               [] k = "food_packs" -> <<30, 100>>)
      [] scenario = "flood" ->
            (CASE k = "ambulances" -> <<2, 6>> [] k = "drones" -> <<2, 6>>
               [] k = "medical_kits" -> <<15, 60>>
               [] k = "repair_crews" -> <<2, 6>>
               [] k = "food_packs" -> <<40, 120>>)
      [] scenario = "wildfire" ->
            (CASE k = "ambulances" -> <<1, 4>> [] k = "drones" -> <<3, 8>>
               [] k = "medical_kits" -> <<10, 40>>
               [] k = "repair_crews" -> <<3, 8>>
               [] k = "food_packs" -> <<20, 80>>)
      [] OTHER -> <<1, 10>>

\* resources drawn at random; rnd = 1 takes the low end of every range and
\* rnd = 2 the high end
RandomResources(scenario, seismic, rnd) ==
    [k \in ResourceNames |->
        LET r == RandomRange(scenario, k)[rnd]
        IN IF scenario \in {"earthquake", "flood", "wildfire"} THEN r
           ELSE Max(0, (r * (100 + seismic)) \div 100)]

\* a caller-supplied map: known keys override, values are clamped at 0
SuppliedResources(current, given) ==
    [k \in ResourceNames |->
        IF k \in DOMAIN given THEN Max(0, given[k]) ELSE current[k]]

\* trigger_disaster with its random draws made explicit: d.extra (nodes
\* picked at random), d.block (edges whose draw fell under the block
\* chance), d.rnd (end of the resource ranges)
TriggerDisaster(e, scenario, intensity, given, d) ==
    LET seismic == Max(0, Min(100, intensity))
        affected == AffectedNodes(scenario, d.extra)
        aedges == AffectedEdges(affected)
        newBlocked == IF seismic > 0 THEN d.block \cap aedges ELSE {}
        blocked == e.blocked \cup newBlocked
        victims == Max(10, SumOver(affected,
                       [n \in NodeIds |-> BaseVictims(n, scenario, seismic)]))
        res == IF DOMAIN given # {}
               THEN SuppliedResources(e.resources, given)
               ELSE RandomResources(scenario, seismic, d.rnd)
    IN [e EXCEPT !.scenario = scenario, !.disaster = TRUE,
                 !.phase = "response", !.time_step = 0,
                 !.victims_saved = 0, !.seismic_level = seismic,
                 !.affected_nodes = affected, !.affected_edges = aedges,
                 !.blocked = blocked, !.roads_blocked = (blocked # {}),
                 !.victims = victims,
                 !.stats = [@ EXCEPT !.total_victims_initial = victims],
                 !.resources = res, !.initial_resources = res,
                 !.resources_used = ZeroResources]

BoundedSubsets(S, n) == {T \in SUBSET S : Cardinality(T) <= n}

\* the nodes and edges whose random draw is explored in both outcomes; the
\* draws of the others are taken as falling over the chance
DrawnNodes == {0}
DrawnEdges == {2, 28}

TriggerDraws(scenario, given) ==
    [extra : IF scenario = "earthquake" THEN {{}}
             ELSE BoundedSubsets(DrawnNodes, MaxExtra),
     block : BoundedSubsets(DrawnEdges, MaxBlock),
     rnd : IF DOMAIN given # {} THEN {1} ELSE {1, 2}]

\* every state trigger_disaster can leave
TriggerSet(e, scenario, intensity, given) ==
    {TriggerDisaster(e, scenario, intensity, given, d) :
        d \in TriggerDraws(scenario, given)}

\* a save_victims that records the count asked for, whatever is left
SaveUnclamped(e, count) ==
    <<[e EXCEPT !.victims = Max(0, e.victims - count),
                !.victims_saved = @ + count], count>>

\* save_victims: <<state afterwards, returned value>>
SaveVictims(e, count) ==
    LET actual == Min(count, e.victims)
    IN <<[e EXCEPT !.victims = Max(0, e.victims - actual),
                   !.victims_saved = @ + actual], actual>>

\* a use_resource that hands out what is asked
UnclampedUsed(amount, available) == amount

\* the amount use_resource takes from the ledger
ActualUsed(amount, available) == Min(amount, available)

\* a use_resource that keeps no count of what was used
UseUncounted(e, name, amount) ==
    IF name \notin DOMAIN e.resources THEN <<e, 0>>
    ELSE <<[e EXCEPT !.resources[name] =
                         @ - ActualUsed(amount, e.resources[name])],
           ActualUsed(amount, e.resources[name])>>

\* use_resource: <<state afterwards, returned value>>
UseResource(e, name, amount) ==
    IF name \notin DOMAIN e.resources THEN <<e, 0>>
    ELSE LET actual == ActualUsed(amount, e.resources[name])
         IN <<[e EXCEPT !.resources[name] = @ - actual,
                        !.resources_used[name] = @ + actual], actual>>

\* a reset that leaves the edges and the statistics as they are
ResetKeepingEdges(e) ==
    [e EXCEPT !.time_step = 0, !.scenario = "None", !.disaster = FALSE,
              !.phase = "idle", !.victims = 0, !.victims_saved = 0,
              !.seismic_level = 0, !.aftershock = FALSE,
              !.roads_blocked = FALSE, !.rebuild_progress = 0,
              !.cooldown_counter = 0, !.resources = DefaultResources,
              !.initial_resources = DefaultResources,
              !.resources_used = ZeroResources,
              !.affected_nodes = {}, !.affected_edges = {}]

EnvReset(e) ==
    [e EXCEPT !.time_step = 0, !.scenario = "None", !.disaster = FALSE,
              !.phase = "idle", !.victims = 0, !.victims_saved = 0,
              !.seismic_level = 0, !.aftershock = FALSE,
              !.roads_blocked = FALSE, !.rebuild_progress = 0,
              !.cooldown_counter = 0, !.resources = DefaultResources,
              !.initial_resources = DefaultResources,
              !.resources_used = ZeroResources,
              !.affected_nodes = {}, !.affected_edges = {},
              !.blocked = {}, !.stats = ZeroStats]

ClampState(e) ==
    [e EXCEPT !.victims = Max(0, @),
              !.resources = [k \in ResourceNames |-> Max(0, @[k])]]

\* random.random() * 0.1, the decay of the seismic level, in hundredths
Decays == {5}
\* 0.8 + random.random() * 0.4, the rebuild factor, in hundredths
RebuildFactors == {80, 119}
\* 0.9 + random.random() * 0.2, the restore factor, in hundredths
RestoreFactors == {90, 109}
\* random.randint(2, 6)
Cooldowns == {2, 6}
\* random.choice of the automatic re-trigger
AutoScenarios == {"earthquake", "flood", "wildfire"}
\* round(random.random() * 0.9 + 0.1, 2), in hundredths
AutoIntensities == {10, 100}

\* a response branch that never goes over to rebuild
ResponseWithoutExit(e, d) ==
    LET seismic == Max(0, e.seismic_level - d.decay)
        upper == (10 * (50 + seismic)) \div 100
        newVictims == IF d.aftershock /\ d.collapse > 0
                      THEN (IF d.collapse = 1 THEN 1 ELSE upper)
                      ELSE 0
    IN [e EXCEPT !.aftershock = d.aftershock,
                 !.roads_blocked = d.roads,
                 !.seismic_level = seismic,
                 !.victims = e.victims + newVictims]

\* the response branch of update; d.aftershock and d.roads are the two
\* Bernoulli draws, d.decay the decay, d.collapse the secondary-collapse
\* draw (0: none, 1: randint gives 1, 2: randint gives its upper end)
Collapses == {0, 2}
UpdateResponse(e, d) ==
    LET seismic == Max(0, e.seismic_level - d.decay)
        upper == (10 * (50 + seismic)) \div 100
        newVictims == IF d.aftershock /\ d.collapse > 0
                      THEN (IF d.collapse = 1 THEN 1 ELSE upper)
                      ELSE 0
        victims == e.victims + newVictims
        e1 == [e EXCEPT !.aftershock = d.aftershock,
                        !.roads_blocked = d.roads,
                        !.seismic_level = seismic,
                        !.victims = victims]
    IN IF victims <= 0 /\ ~d.aftershock
       THEN [e1 EXCEPT !.phase = "rebuild", !.rebuild_progress = 0,
                       !.stats = [@ EXCEPT !.victims_saved = e.victims_saved]]
       ELSE e1

ResponseDraws ==
    {d \in [aftershock : BOOLEAN, roads : BOOLEAN, decay : Decays,
            collapse : Collapses] : d.aftershock \/ d.collapse = 0}

\* the progress one rebuild tick adds, in hundredths
RebuildIncrement(e, factor) ==
    LET crews == Max(0, e.resources["repair_crews"])
        drones == Max(0, e.resources["drones"])
    IN ((crews * Params.rebuild_factor_per_crew + drones * 15) * factor)
       \div 100

\* the rebuild branch of update; d.factor is the random factor, d.unblock
\* the blocked edges the shuffle puts first, d.restore and d.cooldown the
\* draws made when the rebuild completes
UpdateRebuild(e, d) ==
    LET increment == RebuildIncrement(e, d.factor)
        progress == Min(10000, e.rebuild_progress + increment)
        blocked == e.blocked \ d.unblock
        crews == e.resources["repair_crews"]
        consumed == Min(crews, Max(0, increment \div 300))
        e1 == [e EXCEPT !.rebuild_progress = progress,
                        !.blocked = blocked,
                        !.roads_blocked = (blocked # {}),
                        !.resources["repair_crews"] = Max(0, crews - consumed)]
    IN IF progress >= Params.rebuild_required
       THEN [e1 EXCEPT !.phase = "recovered", !.disaster = FALSE,
                       !.seismic_level = 0, !.roads_blocked = FALSE,
                       !.victims = 0, !.blocked = {},
                       !.affected_nodes = {}, !.affected_edges = {},
                       !.stats = [@ EXCEPT !.disasters_completed = @ + 1],
                       !.resources =
                           [k \in ResourceNames |->
                               Max(0, (e.initial_resources[k] * d.restore)
                                      \div 100)],
                       !.cooldown_counter = d.cooldown]
       ELSE e1

RebuildDraws(e) ==
    {d \in [factor : RebuildFactors, unblock : SUBSET e.blocked,
            restore : RestoreFactors, cooldown : Cooldowns] :
        Cardinality(d.unblock) =
            Min(RebuildIncrement(e, d.factor) \div 500,
                Cardinality(e.blocked))}

\* a recovered branch that does not wait for the cooldown
RetriggerAtOnce(e) ==
    UNION {TriggerSet(e, s, i, << >>) :
               s \in AutoScenarios, i \in AutoIntensities}

\* the recovered branch of update
UpdateRecoveredSet(e) ==
    IF e.cooldown_counter > 0
    THEN {[e EXCEPT !.cooldown_counter = @ - 1]}
    ELSE UNION {TriggerSet(e, s, i, << >>) :
                    s \in AutoScenarios, i \in AutoIntensities}

\* the branch update takes in a phase
PhaseBranch(e) ==
    CASE e.phase = "response" -> {UpdateResponse(e, d) : d \in ResponseDraws}
      [] e.phase = "rebuild" -> {UpdateRebuild(e, d) : d \in RebuildDraws(e)}
      [] e.phase = "recovered" -> UpdateRecoveredSet(e)
      [] OTHER -> {e}

\* every state update can leave
UpdateSet(e) ==
    IF e.phase = "idle" THEN {e}
    ELSE LET e0 == [e EXCEPT !.time_step = @ + 1,
                             !.stats = [@ EXCEPT
                                 !.total_time_steps = @ + 1]]
         IN {ClampState(x) : x \in PhaseBranch(e0)}

(***************************************************************************)
(* Agents.  A system state S is [env, bus, agents]; an agent's act maps S  *)
(* to the state it leaves.  Message payloads keep the fields that carry    *)
(* decisions; the free-text "message" field is left out.                   *)
(***************************************************************************)
\* current_plan before the first plan
NoPlan == [type |-> "None"]

AgentsNew ==
    [reflex |-> [state |-> << >>, last_alert_step |-> -1],
     drone |-> [state |-> << >>, scanned_nodes |-> {},
                recon_complete |-> FALSE, recon_start_step |-> -1],
     goal |-> [state |-> << >>, current_plan |-> NoPlan,
               last_plan_step |-> -1],
     utility |-> [state |-> << >>, last_alloc_step |-> -1,
                  deployed_resources |-> << >>],
     rebuild |-> [state |-> << >>, last_status_step |-> -1]]

\* Agent.sense: the observation, with the recent messages of other agents
Sense(S, name) ==
    [e |-> S.env,
     recent_messages |->
         SelectSeq(ReadRecent(S.bus, 20), LAMBDA m : m.sender # name)]

Intent(type, payload, priority) ==
    [type |-> type, payload |-> payload, priority |-> priority]

RECURSIVE SendAll(_, _, _)
\* Agent.act's loop: every intent is sent as it is
SendAll(b, name, intents) ==
    IF intents = << >> THEN b
    ELSE SendAll(BusSend(b, name, Head(intents).type, Head(intents).payload,
                         Head(intents).priority),
                 name, Tail(intents))

\* Agent.act once decide returned d: the agent keeps d.st, every intent is
\* sent
BaseAct(S, key, name, d) ==
    [S EXCEPT !.agents[key] = d.st, !.bus = SendAll(@, name, d.msgs)]

\* a record with one more field
WithField(r, f, v) ==
    [x \in (DOMAIN r) \cup {f} |-> IF x = f THEN v ELSE r[x]]

(*--------------------------- ReflexAgent --------------------------------*)
Severity(seismic, threshold, aftershock) ==
    IF aftershock THEN "critical"
    ELSE IF seismic >= threshold
         THEN (IF seismic >= 80 THEN "critical" ELSE "high")
         ELSE "medium"

\* decide: [msgs, st], the intents and the agent's state afterwards
ReflexDecide(obs, st) ==
    LET e == obs.e
    IN IF e.phase # "response" THEN [msgs |-> << >>, st |-> st]
       ELSE IF e.time_step = st.last_alert_step
            THEN [msgs |-> << >>, st |-> st]
       ELSE IF e.disaster
            THEN LET severity == Severity(e.seismic_level,
                                          Params.seismic_threshold, e.aftershock)
                     priority == IF severity \in {"critical", "high"}
                                 THEN 10 ELSE 5
                 IN [msgs |-> <<Intent("alert",
                                   [severity |-> severity,
                                    seismic_level |-> e.seismic_level,
                                    aftershock |-> e.aftershock,
                                    time_step |-> e.time_step,
                                    affected_areas |->
                                        Cardinality(e.affected_nodes)],
                                   priority)>>,
                     st |-> [st EXCEPT !.last_alert_step = e.time_step]]
       ELSE [msgs |-> << >>, st |-> st]

ReflexAct(S) ==
    BaseAct(S, "reflex", "ReflexAgent",
            ReflexDecide(Sense(S, "ReflexAgent"), S.agents.reflex))

(*-------------------------- DroneReconAgent -----------------------------*)
ScanRadius == 2

\* the nodes list(unscanned)[:nodes_per_step] may hold: a set's iteration
\* order is not fixed, so any subset of that size
ScanPicks(e, st) ==
    LET unscanned == e.affected_nodes \ st.scanned_nodes
        n == Min(Max(0, e.resources["drones"]) * ScanRadius,
                 Cardinality(unscanned))
    IN {T \in SUBSET unscanned : Cardinality(T) = n}

DroneDecide(obs, st, pick) ==
    LET e == obs.e
        st1 == IF st.recon_start_step < 0
               THEN [st EXCEPT !.recon_start_step = e.time_step] ELSE st
        drones == e.resources["drones"]
        unscanned == e.affected_nodes \ st.scanned_nodes
    IN IF e.phase # "response"
       THEN [msgs |-> << >>,
             st |-> [st EXCEPT !.scanned_nodes = {},
                               !.recon_complete = FALSE,
                               !.recon_start_step = -1]]
       ELSE IF drones <= 0 THEN [msgs |-> << >>, st |-> st1]
       ELSE IF unscanned = {} /\ e.affected_nodes # {}
            THEN (IF ~st1.recon_complete
                  THEN [msgs |-> <<Intent("recon_complete",
                                    [total_scanned |->
                                         Cardinality(st1.scanned_nodes),
                                     time_step |-> e.time_step,
                                     recon_duration |->
                                         e.time_step - st1.recon_start_step],
                                    8)>>,
                        st |-> [st1 EXCEPT !.recon_complete = TRUE]]
                  ELSE [msgs |-> << >>, st |-> st1])
       ELSE IF pick # {}
            THEN [msgs |-> <<Intent("recon",
                              [nodes_scanned |-> pick,
                               drones_active |-> drones,
                               remaining_areas |->
                                   Cardinality(unscanned) - Cardinality(pick),
                               time_step |-> e.time_step],
                              7)>>,
                  st |-> st1]
       ELSE [msgs |-> << >>, st |-> st1]

RECURSIVE ScannedAfter(_, _)
\* act's loop over the intents: a recon intent records its nodes
ScannedAfter(scanned, intents) ==
    IF intents = << >> THEN scanned
    ELSE ScannedAfter(IF Head(intents).type = "recon"
                      THEN scanned \cup Head(intents).payload.nodes_scanned
                      ELSE scanned,
                      Tail(intents))

\* act once decide returned d
DroneRecord(S, d) ==
    [S EXCEPT !.agents.drone =
                  [d.st EXCEPT !.scanned_nodes = ScannedAfter(@, d.msgs)],
              !.bus = SendAll(@, "DroneReconAgent", d.msgs)]

DroneAct(S, pick) ==
    DroneRecord(S, DroneDecide(Sense(S, "DroneReconAgent"), S.agents.drone,
                               pick))

(*--------------------------- GoalBasedAgent -----------------------------*)
CommandCenter == 26
ReplanEvery == 3

\* _build_adjacency_list: for every node its (neighbor, distance, blocked)
\* entries, one for each end of each edge
BuildAdjacencyList(blocked) ==
    [n \in NodeIds |->
        {[neighbor |-> IF EdgeTable[i].from = n THEN EdgeTable[i].to
                       ELSE EdgeTable[i].from,
          distance |-> EdgeTable[i].distance,
          blocked |-> i \in blocked] :
            i \in {k \in EdgeIds : EdgeTable[k].from = n
                                   \/ EdgeTable[k].to = n}}]

RECURSIVE ListLess(_, _)
\* Python's order of lists of integers
ListLess(p, q) ==
    IF p = << >> THEN q # << >>
    ELSE IF q = << >> THEN FALSE
    ELSE IF Head(p) # Head(q) THEN Head(p) < Head(q)
    ELSE ListLess(Tail(p), Tail(q))

\* Python's order of the (distance, node, path) tuples on the heap
EntryLess(a, b) ==
    \/ a.dist < b.dist
    \/ a.dist = b.dist /\ a.node < b.node
    \/ a.dist = b.dist /\ a.node = b.node /\ ListLess(a.path, b.path)

\* a pop that returns the largest entry of the heap
HeapLast(pq) == CHOOSE a \in pq : \A b \in pq \ {a} : EntryLess(b, a)

\* the entry heapq.heappop returns
HeapTop(pq) == CHOOSE a \in pq : \A b \in pq \ {a} : EntryLess(a, b)

\* None, for a path
NoPath == << >>

\* the entries the loop pushes for the neighbours of the popped entry
Pushed(adj, top, visited, avoidBlocked) ==
    {[dist |-> top.dist + x.distance, node |-> x.neighbor,
      path |-> Append(top.path, x.neighbor)] :
        x \in {y \in adj[top.node] : /\ y.neighbor \notin visited
                                     /\ ~(avoidBlocked /\ y.blocked)}}

RECURSIVE DijkstraLoop(_, _, _, _, _)
\* the while loop of _find_path_dijkstra
DijkstraLoop(adj, pq, visited, end, avoidBlocked) ==
    IF pq = {} THEN NoPath
    ELSE IF HeapTop(pq).node \in visited
         THEN DijkstraLoop(adj, pq \ {HeapTop(pq)}, visited, end,
                           avoidBlocked)
    ELSE IF HeapTop(pq).node = end THEN HeapTop(pq).path
    ELSE DijkstraLoop(adj,
                      (pq \ {HeapTop(pq)})
                         \cup Pushed(adj, HeapTop(pq),
                                     visited \cup {HeapTop(pq).node},
                                     avoidBlocked),
                      visited \cup {HeapTop(pq).node}, end, avoidBlocked)

FindPathDijkstra(adj, start, end, avoidBlocked) ==
    IF start = end THEN <<start>>
    ELSE DijkstraLoop(adj, {[dist |-> 0, node |-> start, path |-> <<start>>]},
                      {}, end, avoidBlocked)

\* priority_score = vulnerability * (population / 100000), times 1.5 for
\* residential and public_service nodes; kept here times 2000000, with the
\* vulnerability in tenths
PriorityScore(n, scenario) ==
    Vulnerability(n, scenario) * Population[n]
       * (IF NodeType[n] \in {"residential", "public_service"} THEN 3 ELSE 2)

\* critical.sort(key=priority_score, reverse=True): the sort is stable, so
\* nodes of equal score keep the order of the node list
RanksBefore(a, b, scenario) ==
    \/ PriorityScore(a, scenario) > PriorityScore(b, scenario)
    \/ PriorityScore(a, scenario) = PriorityScore(b, scenario) /\ a < b

RECURSIVE Ranked(_, _)
Ranked(S, scenario) ==
    IF S = {} THEN << >>
    ELSE LET first == CHOOSE a \in S :
                         \A b \in S \ {a} : RanksBefore(a, b, scenario)
         IN <<first>> \o Ranked(S \ {first}, scenario)

\* how many critical nodes _find_critical_nodes returns at most
TopCritical == 5

\* _find_critical_nodes: the ids of the affected nodes of highest score
FindCriticalNodes(e) ==
    SubSeq(Ranked(e.affected_nodes, e.scenario), 1,
           Min(TopCritical, Cardinality(e.affected_nodes)))

\* the route to one target, given the path avoiding blocked edges and the
\* path ignoring them; << >> when there is no path at all
RouteTo(e, target, clearPath, anyPath) ==
    IF clearPath # NoPath
    THEN <<[target_id |-> target, path |-> clearPath, status |-> "clear",
            priority |-> PriorityScore(target, e.scenario)]>>
    ELSE IF anyPath # NoPath
    THEN <<[target_id |-> target, path |-> anyPath,
            status |-> "blocked_route",
            priority |-> PriorityScore(target, e.scenario)]>>
    ELSE << >>

RECURSIVE Routes(_, _, _)
\* the loop of _plan_rescue_routes over the critical nodes
Routes(e, adj, targets) ==
    IF targets = << >> THEN << >>
    ELSE RouteTo(e, Head(targets),
                 FindPathDijkstra(adj, CommandCenter, Head(targets), TRUE),
                 FindPathDijkstra(adj, CommandCenter, Head(targets), FALSE))
         \o Routes(e, adj, Tail(targets))

\* the plan, given its routes
RescuePlan(e, routes) ==
    [type |-> "rescue_plan", routes |-> routes,
     critical_nodes |-> FindCriticalNodes(e),
     command_center |-> CommandCenter, total_targets |-> Len(routes)]

PlanRescueRoutes(obs) ==
    RescuePlan(obs.e, Routes(obs.e, BuildAdjacencyList(obs.e.blocked),
                             FindCriticalNodes(obs.e)))

\* decide once the plan is made
GoalPlanned(e, st, plan) ==
    [msgs |-> <<Intent("plan",
                  [time_step |-> e.time_step, plan |-> plan,
                   victims_remaining |-> e.victims,
                   roads_blocked |-> e.roads_blocked],
                  IF e.roads_blocked THEN 8 ELSE 6)>>,
     st |-> [st EXCEPT !.current_plan = plan,
                       !.last_plan_step = e.time_step]]

GoalDecide(obs, st) ==
    LET e == obs.e
    IN IF e.phase # "response" THEN [msgs |-> << >>, st |-> st]
       ELSE IF e.time_step - st.last_plan_step < ReplanEvery
               /\ st.current_plan.type # NoPlan.type
            THEN [msgs |-> << >>, st |-> st]
       ELSE IF e.victims <= 0 THEN [msgs |-> << >>, st |-> st]
       ELSE GoalPlanned(e, st, PlanRescueRoutes(obs))

GoalAct(S) ==
    BaseAct(S, "goal", "GoalAgent",
            GoalDecide(Sense(S, "GoalAgent"), S.agents.goal))

(*---------------------------- UtilityAgent ------------------------------*)
AmbulanceCapacity == 500
DroneCapacity == 200
MedicalKitCapacity == 50
FoodPackCapacity == 30
\* medical kits and food packs used per step at most
KitsPerStep == 5
FoodPerStep == 3

\* (victims + capacity - 1) // capacity
CeilDiv(a, b) == (a + b - 1) \div b

\* an allocation of every kit at hand
AllKits(kits, victims) == kits

\* an allocation of every food pack at hand
AllFood(food, victims) == food

KitsToUse(kits, victims) ==
    Min(Min(kits, KitsPerStep), CeilDiv(victims, MedicalKitCapacity))

FoodToUse(food, victims) ==
    Min(Min(food, FoodPerStep), CeilDiv(victims, FoodPackCapacity))

UtilityDecide(obs, st) ==
    LET e == obs.e
        r == e.resources
        victims == e.victims
        potential == r["ambulances"] * AmbulanceCapacity
                     + r["drones"] * DroneCapacity
                     + Min(r["medical_kits"], KitsPerStep) * MedicalKitCapacity
                     + Min(r["food_packs"], FoodPerStep) * FoodPackCapacity
    IN IF e.phase # "response"
       THEN [msgs |-> << >>, st |-> [st EXCEPT !.deployed_resources = << >>]]
       ELSE IF victims <= 0 THEN [msgs |-> << >>, st |-> st]
       ELSE IF potential > 0
            THEN [msgs |-> <<Intent("rescue",
                              [allocation |->
                                   [ambulances |-> 0, drones |-> 0,
                                    medical_kits |->
                                        KitsToUse(r["medical_kits"], victims),
                                    food_packs |->
                                        FoodToUse(r["food_packs"], victims)],
                               expected_victims_helped |->
                                   Min(potential, victims),
                               remaining_victims |->
                                   Max(0, victims - potential),
                               active_resources |->
                                   [ambulances |-> r["ambulances"],
                                    drones |-> r["drones"],
                                    medical_kits |-> r["medical_kits"],
                                    food_packs |-> r["food_packs"]],
                               time_step |-> e.time_step],
                              5)>>,
                  st |-> st]
       ELSE [msgs |-> <<Intent("status",
                         [victims_remaining |-> victims,
                          time_step |-> e.time_step],
                         1)>>,
             st |-> st]

\* the keys of the allocation, in the order the dictionary lists them
AllocKeys == <<"ambulances", "drones", "medical_kits", "food_packs">>

RECURSIVE ConsumeAlloc(_, _, _)
\* act's loop over the allocation: use_resource for every positive amount
ConsumeAlloc(e, alloc, keys) ==
    IF keys = << >> THEN e
    ELSE ConsumeAlloc(IF alloc[Head(keys)] > 0
                      THEN UseResource(e, Head(keys), alloc[Head(keys)])[1]
                      ELSE e,
                      alloc, Tail(keys))

\* victims_this_step of a rescue payload
VictimsThisStep(payload) ==
    payload.active_resources["ambulances"] * AmbulanceCapacity
    + payload.active_resources["drones"] * DroneCapacity
    + payload.allocation["medical_kits"] * MedicalKitCapacity
    + payload.allocation["food_packs"] * FoodPackCapacity

\* the payload sent once save_victims returned saved
RescueSaved(saved, payload) ==
    <<saved[1], WithField(payload, "actual_victims_saved", saved[2])>>

\* act on one rescue intent: <<environment afterwards, payload sent>>;
\* e1 is the environment once the allocation is consumed
RescueSave(e1, payload, victimsThisStep) ==
    IF victimsThisStep > 0
    THEN RescueSaved(SaveVictims(e1, victimsThisStep), payload)
    ELSE <<e1, payload>>

UtilityRescue(e, payload) ==
    RescueSave(ConsumeAlloc(e, payload.allocation, AllocKeys), payload,
               VictimsThisStep(payload))

\* the intent i is sent with the payload r[2], the environment is r[1]
UtilitySend(S, i, r) ==
    [S EXCEPT !.env = r[1],
              !.bus = BusSend(@, "UtilityAgent", i.type, r[2], i.priority)]

RECURSIVE UtilityLoop(_, _)
UtilityLoop(S, intents) ==
    IF intents = << >> THEN S
    ELSE UtilityLoop(
             UtilitySend(S, Head(intents),
                 IF Head(intents).type = "rescue"
                 THEN UtilityRescue(S.env, Head(intents).payload)
                 ELSE <<S.env, Head(intents).payload>>),
             Tail(intents))

\* act once decide returned d
UtilityRecord(S, d) ==
    UtilityLoop([S EXCEPT !.agents.utility = d.st], d.msgs)

UtilityAct(S) ==
    UtilityRecord(S, UtilityDecide(Sense(S, "UtilityAgent"),
                                   S.agents.utility))

(*---------------------------- RebuildAgent ------------------------------*)
FoodCostPerCrew == 5
MinCrewsForRebuild == 2
Milestones == <<25, 50, 75, 90>>

\* int(remaining / max(0.1, increment_per_step)), or -1 without crews
EstimatedSteps(progress, crews, drones) ==
    IF crews > 0
    THEN Max(0, 10000 - progress)
         \div Max(10, crews * Params.rebuild_factor_per_crew + drones * 15)
    ELSE -1

\* the first milestone whose band [m, m + 5) holds the progress, as a
\* sequence of at most one intent
MilestoneMsgs(progress, timeStep) ==
    LET hit == {i \in 1..Len(Milestones) :
                    progress >= Milestones[i] * 100
                    /\ progress < (Milestones[i] + 5) * 100}
    IN IF hit = {} THEN << >>
       ELSE LET i == CHOOSE j \in hit : \A k \in hit : j <= k
            IN <<Intent("milestone",
                   [milestone |-> Milestones[i], progress |-> progress,
                    time_step |-> timeStep], 4)>>

RebuildDecide(obs, st) ==
    LET e == obs.e
        crews == e.resources["repair_crews"]
        drones == e.resources["drones"]
        status == <<Intent("repair_status",
                      [rebuild_progress |-> e.rebuild_progress,
                       available_crews |-> crews,
                       available_drones |-> drones,
                       estimated_steps_remaining |->
                           EstimatedSteps(e.rebuild_progress, crews, drones),
                       time_step |-> e.time_step], 6)>>
        request == IF crews < MinCrewsForRebuild
                   THEN <<Intent("repair_request",
                            [reason |-> "insufficient_crews",
                             current_crews |-> crews,
                             needed |-> MinCrewsForRebuild - crews,
                             time_step |-> e.time_step], 8)>>
                   ELSE << >>
    IN IF e.phase # "rebuild" THEN [msgs |-> << >>, st |-> st]
       ELSE [msgs |-> status \o request
                      \o MilestoneMsgs(e.rebuild_progress, e.time_step),
             st |-> st]

\* one crew for every food pack at hand
CrewPerPack(e) == e.resources["food_packs"]

\* crews that the food at hand can pay
MaxFromFood(e) == e.resources["food_packs"] \div FoodCostPerCrew

\* act on one repair_request intent, once use_resource returned used
RebuildRecruit(S, i, used) ==
    LET needed == i.payload.needed
        availableFood == S.env.resources["food_packs"]
        maxFromFood == MaxFromFood(S.env)
        crewsAdded == used[2] \div FoodCostPerCrew
    IN IF maxFromFood > 0 /\ used[2] > 0
       THEN [S EXCEPT
                !.env = [used[1] EXCEPT
                            !.resources["repair_crews"] = @ + crewsAdded],
                !.bus = BusSend(@, "RebuildAgent", "repair_alloc",
                                [added_crews |-> crewsAdded,
                                 source |-> "food_recruitment",
                                 food_used |-> used[2],
                                 time_step |-> i.payload.time_step],
                                i.priority)]
       ELSE [S EXCEPT
                !.env = IF maxFromFood > 0 THEN used[1] ELSE S.env,
                !.bus = BusSend(@, "RebuildAgent", "repair_blocked",
                                [reason |-> "insufficient_food_for_recruitment",
                                 needed |-> needed,
                                 available_food |-> availableFood,
                                 required_food |-> needed * FoodCostPerCrew,
                                 time_step |-> i.payload.time_step],
                                Max(1, i.priority - 2))]

\* use_resource is called only when the food pays one crew at least
RebuildRequest(S, i) ==
    RebuildRecruit(S, i,
        IF MaxFromFood(S.env) > 0
        THEN UseResource(S.env, "food_packs",
                 Min(i.payload.needed, MaxFromFood(S.env)) * FoodCostPerCrew)
        ELSE <<S.env, 0>>)

RECURSIVE RebuildLoop(_, _)
RebuildLoop(S, intents) ==
    IF intents = << >> THEN S
    ELSE RebuildLoop(IF Head(intents).type = "repair_request"
                     THEN RebuildRequest(S, Head(intents))
                     ELSE [S EXCEPT !.bus =
                              BusSend(@, "RebuildAgent", Head(intents).type,
                                      Head(intents).payload,
                                      Head(intents).priority)],
                     Tail(intents))

\* act once decide returned d
RebuildRecord(S, d) ==
    RebuildLoop([S EXCEPT !.agents.rebuild = d.st], d.msgs)

RebuildAct(S) ==
    RebuildRecord(S, RebuildDecide(Sense(S, "RebuildAgent"),
                                   S.agents.rebuild))

(***************************************************************************)
(* Orchestrator                                                            *)
(***************************************************************************)
OrchNew == [paused |-> FALSE, cycle_count |-> 0]

\* the list with two agents swapped
SwappedNames ==
    <<"ReflexAgent", "GoalAgent", "DroneReconAgent", "UtilityAgent",
      "RebuildAgent">>

\* self.agents, in the order of the list
AgentNames ==
    <<"ReflexAgent", "DroneReconAgent", "GoalAgent", "UtilityAgent",
      "RebuildAgent">>

CompactEvery == 10
KeepRecent == 100

\* whether run_cycle compacts the bus after this cycle
CompactionDue(cycle) == cycle % CompactEvery = 0

\* agent.act(env, bus) for the agent of that name
ActOf(name, S, pick) ==
    CASE name = "ReflexAgent" -> ReflexAct(S)
      [] name = "DroneReconAgent" -> DroneAct(S, pick)
      [] name = "GoalAgent" -> GoalAct(S)
      [] name = "UtilityAgent" -> UtilityAct(S)
      [] name = "RebuildAgent" -> RebuildAct(S)

\* a loop that an exception leaves
AbortAfterError(names) == << >>

\* the agents run_cycle's loop still visits after one agent's act raised:
\* the exception is caught inside the loop
RemainingAfterError(names) == Tail(names)

\* the record run_cycle's loop keeps once name's act left S1 (or raised)
Visited(acc, name, failed, S1) ==
    [S |-> S1,
     results |-> Append(acc.results,
                     [agent |-> name,
                      status |-> IF failed THEN "error" ELSE "success"]),
     calls |-> Append(acc.calls, [target |-> name, op |-> "act"]),
     envs |-> Append(acc.envs, S1.env),
     counters |-> Append(acc.counters, S1.bus.counter)]

RECURSIVE RunAgents(_, _, _, _)
\* run_cycle's loop.  acc is [S, results, calls, envs, counters]: the system
\* state, agent_results, and a record of the calls made with the
\* environment and the bus id counter after each.  An agent in fails
\* raises on entry to its act.
RunAgents(acc, names, fails, pick) ==
    IF names = << >> THEN acc
    ELSE RunAgents(Visited(acc, Head(names), Head(names) \in fails,
                           IF Head(names) \in fails THEN acc.S
                           ELSE ActOf(Head(names), acc.S, pick)),
                   IF Head(names) \in fails THEN RemainingAfterError(names)
                   ELSE Tail(names),
                   fails, pick)

\* the scan orders the drone agent may take in this cycle
DronePicks(S) ==
    IF S.env.phase = "response" /\ S.env.resources["drones"] > 0
    THEN ScanPicks(S.env, S.agents.drone)
    ELSE {{}}

FailSets == {F \in SUBSET {AgentNames[i] : i \in 1..Len(AgentNames)} :
                Cardinality(F) <= MaxFail}

\* a run_cycle that does not look at the pause flag
NeverSkips(o) == FALSE

\* whether run_cycle returns at once
SkipsCycle(o) == o.paused

\* the calls of one cycle: the acts, then update, then the compaction
CycleCalls(acts, cycle) ==
    acts \o <<[target |-> "Environment", op |-> "update"]>>
         \o (IF CompactionDue(cycle)
             THEN <<[target |-> "MessageBus", op |-> "clear_old_messages",
                     keep_recent |-> KeepRecent]>>
             ELSE << >>)

\* run_cycle; failSets are the sets of raising agents explored
RunCycleStep(failSets) ==
    IF SkipsCycle(orch)
       THEN /\ last' = [op |-> "run_cycle", paused |-> TRUE,
                        flag |-> orch.paused,
                        ret |-> [status |-> "paused",
                                 cycle |-> orch.cycle_count],
                        pre |-> [env |-> env, bus |-> bus, agents |-> agents,
                                 cycle_count |-> orch.cycle_count]]
            /\ UNCHANGED <<env, bus, orch, agents>>
       ELSE \E fails \in failSets,
               pick \in DronePicks([env |-> env, agents |-> agents]) :
              \E acc \in {RunAgents([S |-> [env |-> env, bus |-> bus,
                                            agents |-> agents],
                                     results |-> << >>, calls |-> << >>,
                                     envs |-> <<env>>,
                                     counters |-> <<bus.counter>>],
                                    AgentNames, fails, pick)} :
                \E e2 \in UpdateSet(acc.S.env) :
                   /\ env' = e2
                   /\ agents' = acc.S.agents
                   /\ bus' = IF CompactionDue(orch.cycle_count + 1)
                             THEN ClearOldMessages(acc.S.bus, KeepRecent)
                             ELSE acc.S.bus
                   /\ orch' = [orch EXCEPT !.cycle_count = @ + 1]
                   /\ last' =
                        [op |-> "run_cycle", paused |-> FALSE,
                         flag |-> orch.paused,
                         ret |-> [status |-> "completed",
                                  cycle |-> orch.cycle_count + 1,
                                  agent_results |-> acc.results],
                         fails |-> fails,
                         calls |-> CycleCalls(acc.calls,
                                              orch.cycle_count + 1),
                         envs |-> acc.envs,
                         counters |-> acc.counters,
                         cycle_before |-> orch.cycle_count]

RunCycleWith(failSets) ==
    /\ RunCycleStep(failSets)
    /\ UNCHANGED <<thr, obsv>>

RunCycle == RunCycleWith({{}})

RunCycleFaulty == RunCycleWith(FailSets)

\* pause and resume return nothing: last keeps the last call that did;
\* ext counts the pauses that took effect
Pause ==
    /\ orch.paused \/ ext.pauses < MaxPauses
    /\ orch' = [orch EXCEPT !.paused = TRUE]
    /\ ext' = [ext EXCEPT !.pauses = @ + (IF orch.paused THEN 0 ELSE 1)]
    /\ UNCHANGED <<env, bus, agents, last, thr, obsv>>

Resume ==
    /\ orch' = [orch EXCEPT !.paused = FALSE]
    /\ UNCHANGED <<env, bus, agents, last, ext, thr, obsv>>

\* Orchestrator.reset: agent.state = {} for every agent, nothing else of
\* the agents
ResetAgents(a) ==
    [a EXCEPT !.reflex.state = << >>, !.drone.state = << >>,
              !.goal.state = << >>, !.utility.state = << >>,
              !.rebuild.state = << >>]

(***************************************************************************)
(* Operations called from outside the cycle.  ext counts what a behaviour  *)
(* has used of the bounds.                                                 *)
(***************************************************************************)
NoResources == << >>

\* the trigger calls explored: scenario, intensity in hundredths, and the
\* caller's resource map (NoResources: none given)
TriggerInputs ==
    {[scenario |-> "earthquake", intensity |-> 100, resources |-> NoResources],
     [scenario |-> "flood", intensity |-> 10, resources |-> NoResources],
     [scenario |-> "wildfire", intensity |-> 50,
      resources |-> [ambulances |-> 200, repair_crews |-> 60]],
     [scenario |-> "flood", intensity |-> 150,
      resources |-> [ambulances |-> 0, drones |-> -3, medical_kits |-> 2,
                     repair_crews |-> 0, food_packs |-> 7, water |-> 9]],
     [scenario |-> "tsunami", intensity |-> -20, resources |-> NoResources]}

\* one more call from outside
Called == ext' = [ext EXCEPT !.calls = @ + 1]

\* the trigger calls explored among the other operations of the environment
OpsInputs ==
    {i \in TriggerInputs : i.scenario \in {"wildfire", "tsunami"}
                           \/ i.intensity > 100}

TriggerWith(inputs) ==
    /\ ext.calls < MaxExt
    /\ \E i \in inputs :
         /\ env' \in TriggerSet(env, i.scenario, i.intensity, i.resources)
         /\ last' = [op |-> "trigger_disaster", scenario |-> i.scenario,
                     intensity |-> i.intensity, resources |-> i.resources,
                     phase_before |-> env.phase]
    /\ Called
    /\ UNCHANGED <<bus, orch, agents, thr, obsv>>

Trigger == TriggerWith(TriggerInputs)

OpsTrigger == TriggerWith(OpsInputs)

ResetEnv ==
    /\ ext.calls < MaxExt
    /\ env' = EnvReset(env)
    /\ last' = [op |-> "reset", phase_before |-> env.phase]
    /\ Called
    /\ UNCHANGED <<bus, orch, agents, thr, obsv>>

OrchReset ==
    /\ ext.calls < MaxExt
    /\ orch' = [orch EXCEPT !.cycle_count = 0, !.paused = FALSE]
    /\ env' = EnvReset(env)
    /\ bus' = BusReset(bus)
    /\ agents' = ResetAgents(agents)
    /\ last' = [op |-> "orchestrator_reset", phase_before |-> env.phase]
    /\ Called
    /\ UNCHANGED <<thr, obsv>>

\* MessageBus.reset called by the driver
BusResetCall ==
    /\ bus.counter > 0
    /\ bus' = BusReset(bus)
    /\ last' = [op |-> "bus_reset"]
    /\ UNCHANGED <<env, orch, agents, ext, thr, obsv>>

UseNames == {"food_packs", "water"}
UseAmounts == {-2, 3, 1000}

UseResourceCall ==
    /\ ext.calls < MaxExt
    /\ \E name \in UseNames, amount \in UseAmounts :
         /\ env' = UseResource(env, name, amount)[1]
         /\ last' = [op |-> "use_resource", name |-> name,
                     amount |-> amount,
                     ret |-> UseResource(env, name, amount)[2],
                     pre |-> env]
    /\ Called
    /\ UNCHANGED <<bus, orch, agents, thr, obsv>>

SaveCounts == {-1, 4, 100000}

SaveVictimsCall ==
    /\ ext.calls < MaxExt
    /\ \E count \in SaveCounts :
         /\ env' = SaveVictims(env, count)[1]
         /\ last' = [op |-> "save_victims", count |-> count,
                     ret |-> SaveVictims(env, count)[2],
                     pre |-> env]
    /\ Called
    /\ UNCHANGED <<bus, orch, agents, thr, obsv>>

\* nothing used of the bounds
NoneUsed ==
    [calls |-> 0, ticks |-> 0, aftershocks |-> 0, roads |-> 0,
     pauses |-> 0, faults |-> 0]

NoThreads == << >>
NoObserver == << >>

Init ==
    /\ env = EnvNew
    /\ bus = BusNew(DefaultMaxHistory)
    /\ orch = OrchNew
    /\ agents = AgentsNew
    /\ last = [op |-> "init"]
    /\ ext = NoneUsed
    /\ thr = NoThreads
    /\ obsv = NoObserver

\* the disaster cycles explored start with at most MaxLog messages on the
\* bus, and at most MaxTicks of them are explored
TickBound ==
    \/ env.phase = "idle"
    \/ orch.paused
    \/ ext.ticks < MaxTicks /\ bus.counter <= MaxLog

\* what a cycle uses of the bounds: a tick, and the draws of a response
\* tick that succeeded
Ticked ==
    /\ ext' = [ext EXCEPT
          !.ticks = @ + (IF env.phase # "idle" /\ ~orch.paused
                         THEN 1 ELSE 0),
          !.aftershocks = @ + (IF env.phase = "response" /\ ~orch.paused
                                  /\ env'.aftershock THEN 1 ELSE 0),
          !.roads = @ + (IF env.phase = "response" /\ ~orch.paused
                            /\ env'.roads_blocked THEN 1 ELSE 0),
          !.faults = @ + (IF ~last'.paused /\ last'.fails # {}
                          THEN 1 ELSE 0)]
    /\ ext'.aftershocks <= MaxAftershocks
    /\ ext'.roads <= MaxRoadDraws
    /\ ext'.faults <= MaxFaults

\* the scheduler's view: cycles of one disaster, up to the compaction
Cycle ==
    /\ orch.cycle_count < MaxCycles
    /\ TickBound
    /\ RunCycle
    /\ Ticked

Next ==
    \/ ext.calls = 0 /\ Trigger
    \/ Cycle
    \/ Pause
    \/ Resume
    \/ BusResetCall

Spec == Init /\ [][Next]_vars

\* the environment's view: any sequence of its operations and of cycles
OpsCycle ==
    /\ env.phase = "idle" => orch.cycle_count < MaxIdle
    /\ TickBound
    /\ RunCycle
    /\ Ticked

NextOps ==
    \/ OpsTrigger
    \/ OpsCycle
    \/ ResetEnv
    \/ OrchReset
    \/ UseResourceCall
    \/ SaveVictimsCall
    \/ BusResetCall

SpecOps == Init /\ [][NextOps]_vars

\* cycles in which the act of some agents raises
FaultyCycle ==
    /\ env.phase = "idle" => orch.cycle_count < MaxIdle
    /\ TickBound
    /\ RunCycleFaulty
    /\ Ticked

NextFault ==
    \/ ext.calls = 0 /\ OpsTrigger
    \/ FaultyCycle
    \/ BusResetCall

SpecFault == Init /\ [][NextFault]_vars

(***************************************************************************)
(* Disasters one after the other: the /start handler (which resets the     *)
(* orchestrator when a disaster is on), the /reset handler and cycles.     *)
(* obsv keeps what the agents sent in the current response phase.          *)
(***************************************************************************)
\* the /start requests explored
StartInputs ==
    {i \in TriggerInputs : i.scenario \in {"earthquake", "wildfire"}}

\* nothing sent yet in this response phase: the nodes the recon messages
\* listed and how many entries those lists had in all, the number of
\* recon_complete messages, the time steps of the plans
PhaseLogNew ==
    [listed |-> {}, entries |-> 0, completes |-> 0, plans |-> << >>]

\* the messages on the active list sent after the id counter stood at n
SentSince(b, n) == SelectSeq(b.messages, LAMBDA m : m.id > n)

OfType(msgs, type) == SelectSeq(msgs, LAMBDA m : m.type = type)

\* the nodes that the recon messages among msgs list
NodesListed(msgs) ==
    UNION {OfType(msgs, "recon")[i].payload.nodes_scanned :
               i \in 1..Len(OfType(msgs, "recon"))}

RECURSIVE EntriesListed(_)
\* the number of entries in the lists of the recon messages among msgs
EntriesListed(msgs) ==
    IF msgs = << >> THEN 0
    ELSE (IF Head(msgs).type = "recon"
          THEN Cardinality(Head(msgs).payload.nodes_scanned) ELSE 0)
         + EntriesListed(Tail(msgs))

\* the log once msgs were sent
PhaseLogged(log, msgs) ==
    [listed |-> log.listed \cup NodesListed(msgs),
     entries |-> log.entries + EntriesListed(msgs),
     completes |-> log.completes + Len(OfType(msgs, "recon_complete")),
     plans |-> log.plans \o
                 [i \in 1..Len(OfType(msgs, "plan")) |->
                     OfType(msgs, "plan")[i].payload.time_step]]

\* start_disaster of main.py: orch.reset() unless the phase is idle, then
\* env.trigger_disaster
StartDisaster ==
    /\ ext.calls < MaxExt
    /\ \E i \in StartInputs :
         /\ env' \in TriggerSet(IF env.phase # "idle" THEN EnvReset(env)
                                ELSE env,
                                i.scenario, i.intensity, i.resources)
         /\ last' = [op |-> "start_disaster", scenario |-> i.scenario,
                     intensity |-> i.intensity, resources |-> i.resources,
                     phase_before |-> env.phase]
    /\ IF env.phase # "idle"
       THEN /\ orch' = [orch EXCEPT !.cycle_count = 0, !.paused = FALSE]
            /\ bus' = BusReset(bus)
            /\ agents' = ResetAgents(agents)
       ELSE UNCHANGED <<orch, bus, agents>>
    /\ Called
    /\ obsv' = PhaseLogNew
    /\ UNCHANGED thr

\* a cycle, with the log of the response phase kept; a response phase
\* that update enters by the automatic re-trigger starts a new log
StartCycle ==
    /\ env.phase = "idle" => orch.cycle_count < MaxIdle
    /\ \/ env.phase = "idle"
       \/ ext.ticks < MaxStartTicks /\ bus.counter <= MaxLog
    /\ RunCycleStep({{}})
    /\ Ticked
    /\ obsv' = IF env.phase # "response" /\ env'.phase = "response"
               THEN PhaseLogNew
               ELSE PhaseLogged(obsv, SentSince(bus', bus.counter))
    /\ UNCHANGED thr

InitStart ==
    /\ env = EnvNew
    /\ bus = BusNew(DefaultMaxHistory)
    /\ orch = OrchNew
    /\ agents = AgentsNew
    /\ last = [op |-> "init"]
    /\ ext = NoneUsed
    /\ thr = NoThreads
    /\ obsv = PhaseLogNew

NextStart ==
    \/ StartDisaster
    \/ StartCycle
    \/ OrchReset
    \/ BusResetCall

SpecStart == InitStart /\ [][NextStart]_vars

(***************************************************************************)
(* Route planning: one trigger with any outcome of its draws, then one act *)
(* of the goal agent on the graph snapshot the trigger left.               *)
(***************************************************************************)
\* the trigger calls explored: an earthquake (every node affected) and a
\* scenario without a table of its own (any node set affected)
RouteInputs ==
    {[scenario |-> "earthquake", intensity |-> 100, resources |-> NoResources],
     [scenario |-> "tsunami", intensity |-> 100, resources |-> NoResources]}

\* every outcome of the node and edge draws
RouteDraws == [extra : SUBSET NodeIds, block : SUBSET EdgeIds, rnd : {1}]

RouteTrigger ==
    /\ ext.calls = 0
    /\ \E i \in RouteInputs, d \in RouteDraws :
         /\ env' = TriggerDisaster(env, i.scenario, i.intensity, i.resources,
                                   d)
         /\ last' = [op |-> "trigger_disaster", scenario |-> i.scenario,
                     intensity |-> i.intensity, resources |-> i.resources,
                     phase_before |-> env.phase]
    /\ Called
    /\ UNCHANGED <<bus, orch, agents, thr, obsv>>

\* GoalBasedAgent.act, once after the trigger
RoutePlan ==
    /\ last.op = "trigger_disaster"
    /\ \E S \in {GoalAct([env |-> env, bus |-> bus, agents |-> agents])} :
         /\ agents' = S.agents
         /\ bus' = S.bus
    /\ last' = [op |-> "goal_act"]
    /\ UNCHANGED <<env, orch, ext, thr, obsv>>

NextRoute ==
    \/ RouteTrigger
    \/ RoutePlan

SpecRoute == Init /\ [][NextRoute]_vars

(***************************************************************************)
(* Earthquakes of several intensities, one after the other.                *)
(***************************************************************************)
\* intensities below, at and above the ends of [0, 1], and in between
QuakeInputs ==
    {[scenario |-> "earthquake", intensity |-> i, resources |-> NoResources] :
        i \in {-20, 0, 1, 10, 25, 33, 50, 57, 75, 99, 100, 150}}

QuakeTrigger == TriggerWith(QuakeInputs)

NextQuake == QuakeTrigger

SpecQuake == Init /\ [][NextQuake]_vars

(***************************************************************************)
(* Requests to /start, valid and not, next to direct calls of              *)
(* trigger_disaster and cycles.                                            *)
(***************************************************************************)
\* cycles of disasters explored next to the requests
MaxRequestTicks == 2

ValidScenarios == {"earthquake", "flood", "wildfire"}

\* a validation that does not look at the scenario
IntensityInRange(scenario, intensity) == intensity >= 10 /\ intensity <= 100

\* StartRequest: the scenario validator and the ge/le bounds of intensity
ValidStart(scenario, intensity) ==
    /\ scenario \in ValidScenarios
    /\ intensity >= 10 /\ intensity <= 100

\* the request bodies explored
RequestInputs ==
    {[scenario |-> "earthquake", intensity |-> 100, resources |-> NoResources],
     [scenario |-> "wildfire", intensity |-> 10, resources |-> NoResources],
     [scenario |-> "tsunami", intensity |-> 50, resources |-> NoResources],
     [scenario |-> "earthquake", intensity |-> 5, resources |-> NoResources],
     [scenario |-> "flood", intensity |-> 150, resources |-> NoResources]}

\* POST /start: a body that fails validation is answered with an error
\* before start_disaster runs; otherwise start_disaster resets the
\* orchestrator unless the phase is idle and triggers the disaster
StartRequest ==
    /\ ext.calls < MaxExt
    /\ \E i \in RequestInputs :
         IF ValidStart(i.scenario, i.intensity)
         THEN /\ env' \in TriggerSet(IF env.phase # "idle" THEN EnvReset(env)
                                     ELSE env,
                                     i.scenario, i.intensity, i.resources)
              /\ last' = [op |-> "start", status |-> "success",
                          scenario |-> i.scenario, intensity |-> i.intensity,
                          phase_before |-> env.phase]
              /\ IF env.phase # "idle"
                 THEN /\ orch' = [orch EXCEPT !.cycle_count = 0,
                                              !.paused = FALSE]
                      /\ bus' = BusReset(bus)
                      /\ agents' = ResetAgents(agents)
                 ELSE UNCHANGED <<orch, bus, agents>>
         ELSE /\ last' = [op |-> "start", status |-> "error",
                          scenario |-> i.scenario, intensity |-> i.intensity,
                          phase_before |-> env.phase]
              /\ UNCHANGED <<env, orch, bus, agents>>
    /\ Called
    /\ UNCHANGED <<thr, obsv>>

RequestCycle ==
    /\ ext.ticks < MaxRequestTicks
    /\ OpsCycle

NextRequest ==
    \/ StartRequest
    \/ OpsTrigger
    \/ RequestCycle

SpecRequest == Init /\ [][NextRequest]_vars

(***************************************************************************)
(* One earthquake of intensity 1.0 with drawn resources and the cycles of  *)
(* its response phase, run one after the other as the driver's loop runs   *)
(* them.  At most MaxAftershocks of the aftershock draws succeed: the      *)
(* bounded form of fair draws.  The road draw and the order of the drone's *)
(* scan, which do not bear on the victims, are taken one way: the draw     *)
(* fails, the scan goes by node id.                                        *)
(***************************************************************************)
\* cycles of the response phase explored
MaxLiveTicks == 64

LiveInputs ==
    {[scenario |-> "earthquake", intensity |-> 100, resources |-> NoResources]}

LiveTrigger ==
    /\ ext.calls = 0
    /\ TriggerWith(LiveInputs)

LiveCycle ==
    /\ env.phase = "response"
    /\ ext.ticks < MaxLiveTicks
    /\ RunCycleStep({{}})
    /\ Ticked
    /\ ext'.roads = 0
    /\ \A n \in agents'.drone.scanned_nodes, m \in env.affected_nodes :
          m < n => m \in agents'.drone.scanned_nodes
    /\ UNCHANGED <<thr, obsv>>

NextLive ==
    \/ LiveTrigger
    \/ LiveCycle

\* a cycle can be taken: LiveCycle is enabled exactly here, since the draws
\* of an update always include one without aftershock
CanCycle == env.phase = "response" /\ ext.ticks < MaxLiveTicks

\* the driver triggers, and its loop keeps running cycles: weak fairness of
\* both, that of LiveCycle written out with CanCycle for its enabling
SpecLive ==
    /\ Init
    /\ [][NextLive]_vars
    /\ WF_vars(LiveTrigger)
    /\ ([]<>(~CanCycle) \/ []<><<LiveCycle>>_vars)

(***************************************************************************)
(* The bus alone: sends, reads by several consumers and compactions in any *)
(* order.  obsv keeps what each consumer was handed.                       *)
(***************************************************************************)
Consumers == {"c1", "c2"}

BusSenders == {[sender |-> "A", type |-> "x"], [sender |-> "B", type |-> "y"]}

KeepCounts == 0..MaxKeep

Range(q) == {q[i] : i \in DOMAIN q}

IdSeq(msgs) == [i \in DOMAIN msgs |-> msgs[i].id]

\* the ids an operation took off the active list
Dropped(b, b1) == Range(IdSeq(b.messages)) \ Range(IdSeq(b1.messages))

\* a consumer is said to have skipped the ids taken off the active list
\* before it was handed them
Skip(o, b, b1) ==
    [o EXCEPT !.skipped =
        [c \in Consumers |-> @[c] \cup (Dropped(b, b1) \ Range(o.delivered[c]))]]

\* delivered: the ids read_all(c) handed to c, in the order handed;
\* first, seen: the id counter at c's first and latest read_all(c), first
\* is -1 before; skipped: see Skip
ObserverNew ==
    [delivered |-> [c \in Consumers |-> << >>],
     first |-> [c \in Consumers |-> -1],
     seen |-> [c \in Consumers |-> 0],
     skipped |-> [c \in Consumers |-> {}]]

\* what obsv keeps of a read_all(c) that returned ret
Observed(o, b, c, ret) ==
    [o EXCEPT !.delivered[c] = @ \o IdSeq(ret),
              !.first[c] = IF @ < 0 THEN b.counter ELSE @,
              !.seen[c] = b.counter]

BusSendCall ==
    /\ bus.counter < MaxSend
    /\ \E m \in BusSenders :
         /\ bus' = BusSend(bus, m.sender, m.type, << >>, 1)
         /\ last' = [op |-> "send", ret |-> NextId(bus)]
    /\ UNCHANGED <<env, orch, agents, ext, thr, obsv>>

\* read_all(c)
BusReadCall ==
    /\ \E c \in Consumers :
         /\ bus' = ReadAllBus(bus, c, FALSE)
         /\ last' = [op |-> "read_all", consumer |-> c, clear |-> FALSE,
                     ret |-> ReadAllResult(bus, c, FALSE), pre |-> bus]
         /\ obsv' = Observed(obsv, bus, c, ReadAllResult(bus, c, FALSE))
    /\ UNCHANGED <<env, orch, agents, ext, thr>>

\* read_all(c, clear=True): the consumer id plays no part
BusDrainCall ==
    /\ \E c \in Consumers :
         /\ bus' = ReadAllBus(bus, c, TRUE)
         /\ last' = [op |-> "read_all", consumer |-> c, clear |-> TRUE,
                     ret |-> ReadAllResult(bus, c, TRUE), pre |-> bus]
         /\ obsv' = Skip(obsv, bus, ReadAllBus(bus, c, TRUE))
    /\ UNCHANGED <<env, orch, agents, ext, thr>>

BusCompactCall ==
    /\ \E keep \in KeepCounts :
         /\ bus' = ClearOldMessages(bus, keep)
         /\ last' = [op |-> "clear_old_messages", keep_recent |-> keep]
         /\ obsv' = Skip(obsv, bus, ClearOldMessages(bus, keep))
    /\ UNCHANGED <<env, orch, agents, ext, thr>>

InitBus ==
    /\ env = EnvNew
    /\ bus = BusNew(MaxHist)
    /\ orch = OrchNew
    /\ agents = AgentsNew
    /\ last = [op |-> "init"]
    /\ ext = NoneUsed
    /\ thr = NoThreads
    /\ obsv = ObserverNew

NextBus ==
    \/ BusSendCall
    \/ BusReadCall
    \/ BusDrainCall
    \/ BusCompactCall

SpecBus == InitBus /\ [][NextBus]_vars

(***************************************************************************)
(* The bus with its history: sends, both modes of read_all, compactions,   *)
(* read_recent, get_history and reset in any order.  obsv keeps the        *)
(* messages sent since construction or the last reset.                     *)
(***************************************************************************)
RecentCounts == 0..(MaxHist + 1)

SinceIds == 0..MaxSend

HistSend ==
    /\ bus.counter < MaxSend
    /\ \E m \in BusSenders :
         \E b \in {BusSend(bus, m.sender, m.type, << >>, 1)} :
            /\ bus' = b
            /\ obsv' = Append(obsv, b.messages[Len(b.messages)])
    /\ last' = [op |-> "send", ret |-> NextId(bus)]
    /\ UNCHANGED <<env, orch, agents, ext, thr>>

HistReadAll ==
    /\ \E c \in Consumers, clear \in BOOLEAN :
         /\ bus' = ReadAllBus(bus, c, clear)
         /\ last' = [op |-> "read_all", consumer |-> c, clear |-> clear]
    /\ UNCHANGED <<env, orch, agents, ext, thr, obsv>>

HistCompact ==
    /\ \E keep \in KeepCounts :
         /\ bus' = ClearOldMessages(bus, keep)
         /\ last' = [op |-> "clear_old_messages", keep_recent |-> keep,
                     pre |-> bus]
    /\ UNCHANGED <<env, orch, agents, ext, thr, obsv>>

HistRecent ==
    /\ \E count \in RecentCounts :
         last' = [op |-> "read_recent", count |-> count,
                  ret |-> ReadRecent(bus, count), pre |-> bus]
    /\ UNCHANGED <<env, bus, orch, agents, ext, thr, obsv>>

HistGet ==
    /\ \E since \in SinceIds :
         last' = [op |-> "get_history", since_id |-> since,
                  ret |-> GetHistory(bus, since), pre |-> bus]
    /\ UNCHANGED <<env, bus, orch, agents, ext, thr, obsv>>

HistReset ==
    /\ bus.counter > 0
    /\ bus' = BusReset(bus)
    /\ obsv' = << >>
    /\ last' = [op |-> "bus_reset"]
    /\ UNCHANGED <<env, orch, agents, ext, thr>>

InitHist ==
    /\ env = EnvNew
    /\ bus = BusNew(MaxHist)
    /\ orch = OrchNew
    /\ agents = AgentsNew
    /\ last = [op |-> "init"]
    /\ ext = NoneUsed
    /\ thr = NoThreads
    /\ obsv = << >>

NextHist ==
    \/ HistSend
    \/ HistReadAll
    \/ HistCompact
    \/ HistRecent
    \/ HistGet
    \/ HistReset

SpecHist == InitHist /\ [][NextHist]_vars

(***************************************************************************)
(* send called from several threads.  The steps of one send are taken one  *)
(* by one; thr holds each thread's position, the owner of the bus lock     *)
(* (0: free) and the ids returned since the bus was new or reset.          *)
(***************************************************************************)
Threads == 1..MaxThreads

ThreadsNew ==
    [pc |-> [t \in Threads |-> "idle"],
     owner |-> 0,
     reg |-> [t \in Threads |-> 0],
     msg |-> [t \in Threads |-> << >>],
     sends |-> [t \in Threads |-> 0],
     returned |-> << >>]

\* a send without the lock
NoLock(owner, t) == TRUE

\* with self._lock, a re-entrant lock
CanAcquire(owner, t) == owner = 0 \/ owner = t

SendCall(t) ==
    /\ thr.pc[t] = "idle"
    /\ thr.sends[t] < MaxThreadSends
    /\ thr' = [thr EXCEPT !.pc[t] = "acquire", !.sends[t] = @ + 1]
    /\ UNCHANGED <<env, bus, orch, agents, last, ext, obsv>>

SendAcquire(t) ==
    /\ thr.pc[t] = "acquire"
    /\ CanAcquire(thr.owner, t)
    /\ thr' = [thr EXCEPT !.pc[t] = "load", !.owner = t]
    /\ UNCHANGED <<env, bus, orch, agents, last, ext, obsv>>

\* self._message_id_counter += 1 reads the counter ...
SendLoad(t) ==
    /\ thr.pc[t] = "load"
    /\ thr' = [thr EXCEPT !.pc[t] = "store", !.reg[t] = bus.counter]
    /\ UNCHANGED <<env, bus, orch, agents, last, ext, obsv>>

\* ... and writes it
SendStore(t) ==
    /\ thr.pc[t] = "store"
    /\ bus' = [bus EXCEPT !.counter = thr.reg[t] + 1]
    /\ thr' = [thr EXCEPT !.pc[t] = "build"]
    /\ UNCHANGED <<env, orch, agents, last, ext, obsv>>

SendBuild(t) ==
    /\ thr.pc[t] = "build"
    /\ thr' = [thr EXCEPT !.pc[t] = "append",
                          !.msg[t] = [id |-> bus.counter, type |-> "x",
                                      sender |-> t, payload |-> << >>,
                                      priority |-> 1]]
    /\ UNCHANGED <<env, bus, orch, agents, last, ext, obsv>>

SendAppend(t) ==
    /\ thr.pc[t] = "append"
    /\ bus' = [bus EXCEPT !.messages = Append(@, thr.msg[t])]
    /\ thr' = [thr EXCEPT !.pc[t] = "record"]
    /\ UNCHANGED <<env, orch, agents, last, ext, obsv>>

SendRecord(t) ==
    /\ thr.pc[t] = "record"
    /\ bus' = [bus EXCEPT !.history =
                   DequeAppend(@, thr.msg[t], bus.max_history)]
    /\ thr' = [thr EXCEPT !.pc[t] = "return"]
    /\ UNCHANGED <<env, orch, agents, last, ext, obsv>>

\* return self._message_id_counter, and the lock is released
SendReturn(t) ==
    /\ thr.pc[t] = "return"
    /\ thr' = [thr EXCEPT !.pc[t] = "idle", !.owner = 0,
                          !.returned = Append(@, [thread |-> t,
                                                  id |-> bus.counter])]
    /\ last' = [op |-> "send", ret |-> bus.counter]
    /\ UNCHANGED <<env, bus, orch, agents, ext, obsv>>

\* reset called by one more thread, under the lock
ThreadReset ==
    /\ CanAcquire(thr.owner, 0)
    /\ bus.counter > 0
    /\ bus' = BusReset(bus)
    /\ thr' = [thr EXCEPT !.returned = << >>]
    /\ last' = [op |-> "bus_reset"]
    /\ UNCHANGED <<env, orch, agents, ext, obsv>>

InitSend ==
    /\ env = EnvNew
    /\ bus = BusNew(DefaultMaxHistory)
    /\ orch = OrchNew
    /\ agents = AgentsNew
    /\ last = [op |-> "init"]
    /\ ext = NoneUsed
    /\ thr = ThreadsNew
    /\ obsv = NoObserver

NextSend ==
    \/ \E t \in Threads : SendCall(t)
    \/ \E t \in Threads : SendAcquire(t)
    \/ \E t \in Threads : SendLoad(t)
    \/ \E t \in Threads : SendStore(t)
    \/ \E t \in Threads : SendBuild(t)
    \/ \E t \in Threads : SendAppend(t)
    \/ \E t \in Threads : SendRecord(t)
    \/ \E t \in Threads : SendReturn(t)
    \/ ThreadReset

SpecSend == InitSend /\ [][NextSend]_vars

(***************************************************************************)
(* The orchestrator's operations called from several threads.  run_cycle   *)
(* is taken step by step: the lock and the pause flag, each agent's act,   *)
(* update, the compaction and the return; pause, resume and reset are one  *)
(* step under the lock.  thr holds each thread's operation and position,   *)
(* the agent its cycle visits next and the owner of the lock (0: free).    *)
(***************************************************************************)
\* operations one thread calls
MaxThreadOps == 2

OrchOps == {"run_cycle", "pause", "resume", "reset"}

LockThreadsNew ==
    [pc |-> [t \in Threads |-> "idle"],
     owner |-> 0,
     op |-> [t \in Threads |-> "none"],
     step |-> [t \in Threads |-> 0],
     calls |-> [t \in Threads |-> 0]]

\* one disaster is started before the threads call
LockTrigger ==
    /\ ext.calls = 0
    /\ env' = TriggerDisaster(env, "wildfire", 50,
                              [ambulances |-> 200, repair_crews |-> 60],
                              [extra |-> {}, block |-> {}, rnd |-> 1])
    /\ last' = [op |-> "trigger_disaster", scenario |-> "wildfire",
                intensity |-> 50,
                resources |-> [ambulances |-> 200, repair_crews |-> 60],
                phase_before |-> env.phase]
    /\ Called
    /\ UNCHANGED <<bus, orch, agents, thr, obsv>>

LockCall(t) ==
    /\ ext.calls > 0
    /\ thr.pc[t] = "idle"
    /\ thr.calls[t] < MaxThreadOps
    /\ \E op \in OrchOps :
         thr' = [thr EXCEPT !.pc[t] = "acquire", !.op[t] = op,
                            !.calls[t] = @ + 1]
    /\ UNCHANGED <<env, bus, orch, agents, last, ext, obsv>>

\* with self._lock: self._paused = True
LockPause(t) ==
    /\ thr.pc[t] = "acquire" /\ thr.op[t] = "pause"
    /\ CanAcquire(thr.owner, t)
    /\ orch' = [orch EXCEPT !.paused = TRUE]
    /\ thr' = [thr EXCEPT !.pc[t] = "idle"]
    /\ UNCHANGED <<env, bus, agents, last, ext, obsv>>

LockResume(t) ==
    /\ thr.pc[t] = "acquire" /\ thr.op[t] = "resume"
    /\ CanAcquire(thr.owner, t)
    /\ orch' = [orch EXCEPT !.paused = FALSE]
    /\ thr' = [thr EXCEPT !.pc[t] = "idle"]
    /\ UNCHANGED <<env, bus, agents, last, ext, obsv>>

LockReset(t) ==
    /\ thr.pc[t] = "acquire" /\ thr.op[t] = "reset"
    /\ CanAcquire(thr.owner, t)
    /\ orch' = [orch EXCEPT !.cycle_count = 0, !.paused = FALSE]
    /\ env' = EnvReset(env)
    /\ bus' = BusReset(bus)
    /\ agents' = ResetAgents(agents)
    /\ thr' = [thr EXCEPT !.pc[t] = "idle"]
    /\ UNCHANGED <<last, ext, obsv>>

\* run_cycle takes the lock and returns at once when paused; otherwise it
\* counts the cycle and goes on to the agents
LockCycleEnter(t) ==
    /\ thr.pc[t] = "acquire" /\ thr.op[t] = "run_cycle"
    /\ CanAcquire(thr.owner, t)
    /\ IF SkipsCycle(orch)
       THEN /\ thr' = [thr EXCEPT !.pc[t] = "idle"]
            /\ UNCHANGED orch
       ELSE /\ thr' = [thr EXCEPT !.pc[t] = "act", !.step[t] = 1,
                                  !.owner = t]
            /\ orch' = [orch EXCEPT !.cycle_count = @ + 1]
    /\ UNCHANGED <<env, bus, agents, last, ext, obsv>>

\* agent.act(self.env, self.bus) of the agent the loop is at
LockCycleAct(t) ==
    /\ thr.pc[t] = "act"
    /\ \E pick \in DronePicks([env |-> env, agents |-> agents]) :
         \E S \in {ActOf(AgentNames[thr.step[t]],
                         [env |-> env, bus |-> bus, agents |-> agents],
                         pick)} :
            /\ env' = S.env
            /\ bus' = S.bus
            /\ agents' = S.agents
    /\ thr' = IF thr.step[t] < Len(AgentNames)
              THEN [thr EXCEPT !.step[t] = @ + 1]
              ELSE [thr EXCEPT !.pc[t] = "update", !.step[t] = 0]
    /\ UNCHANGED <<orch, last, ext, obsv>>

\* self.env.update(); the road draw is taken as failing
LockCycleUpdate(t) ==
    /\ thr.pc[t] = "update"
    /\ env' \in UpdateSet(env)
    /\ env.phase = "response" => ~env'.roads_blocked
    /\ ext' = [ext EXCEPT
          !.ticks = @ + 1,
          !.aftershocks = @ + (IF env.phase = "response" /\ env'.aftershock
                               THEN 1 ELSE 0)]
    /\ ext'.aftershocks <= MaxAftershocks
    /\ thr' = [thr EXCEPT !.pc[t] = "compact"]
    /\ UNCHANGED <<bus, orch, agents, last, obsv>>

\* the compaction when due, then the return, which releases the lock
LockCycleReturn(t) ==
    /\ thr.pc[t] = "compact"
    /\ bus' = IF CompactionDue(orch.cycle_count)
              THEN ClearOldMessages(bus, KeepRecent)
              ELSE bus
    /\ thr' = [thr EXCEPT !.pc[t] = "idle", !.owner = 0]
    /\ UNCHANGED <<env, orch, agents, last, ext, obsv>>

InitLock ==
    /\ env = EnvNew
    /\ bus = BusNew(DefaultMaxHistory)
    /\ orch = OrchNew
    /\ agents = AgentsNew
    /\ last = [op |-> "init"]
    /\ ext = NoneUsed
    /\ thr = LockThreadsNew
    /\ obsv = NoObserver

NextLock ==
    \/ LockTrigger
    \/ \E t \in Threads : LockCall(t)
    \/ \E t \in Threads : LockPause(t)
    \/ \E t \in Threads : LockResume(t)
    \/ \E t \in Threads : LockReset(t)
    \/ \E t \in Threads : LockCycleEnter(t)
    \/ \E t \in Threads : LockCycleAct(t)
    \/ \E t \in Threads : LockCycleUpdate(t)
    \/ \E t \in Threads : LockCycleReturn(t)

SpecLock == InitLock /\ [][NextLock]_vars

(***************************************************************************)
(* Objects and references.  A dict or a list is an object of the store;    *)
(* a key or a position holds a number, a text, a truth value or a          *)
(* reference to an object.  obsv is the store, env and bus hold the        *)
(* references the Environment and the MessageBus keep, last.ret the value  *)
(* an operation handed to its caller.  Of a node and an edge the numeric   *)
(* keys and the nested map are kept.                                       *)
(***************************************************************************)
\* sends, reads and writes explored on the store
MaxAliasSends == 2
MaxAliasReads == 2
MaxAliasWrites == 1

Num(n) == [k |-> "int", v |-> n]
Text(t) == [k |-> "str", v |-> t]
Flag(b) == [k |-> "bool", v |-> b]
DictRef(i) == [k |-> "dict", v |-> i]
ListRef(i) == [k |-> "list", v |-> i]

IntDict(r) == [key \in DOMAIN r |-> Num(r[key])]

NodeSeq == <<0, 2, 3, 9, 23, 26>>
EdgeSeq == <<1, 2, 10, 25, 28, 30>>

\* the dicts of a new Environment: for the i-th node its vulnerability map
\* at 2i - 1 and the node at 2i, then the edges, then resources,
\* resources_used, initial_resources, params and stats
EnvDicts ==
    LET n == Len(NodeSeq)
        e == Len(EdgeSeq)
    IN [i \in 1..(2 * n) |->
           IF i % 2 = 1
           THEN IntDict(VulnTable[NodeSeq[(i + 1) \div 2]])
           ELSE [id |-> Num(NodeSeq[i \div 2]),
                 population |-> Num(Population[NodeSeq[i \div 2]]),
                 vulnerability |-> DictRef(i - 1)]]
       \o [j \in 1..e |->
             [from |-> Num(EdgeTable[EdgeSeq[j]].from),
              to |-> Num(EdgeTable[EdgeSeq[j]].to),
              distance |-> Num(EdgeTable[EdgeSeq[j]].distance),
              blocked |-> Flag(FALSE)]]
       \o <<IntDict(DefaultResources), IntDict(ZeroResources),
            IntDict(DefaultResources), IntDict(Params), IntDict(ZeroStats)>>

\* the lists of a new Environment and a new MessageBus: nodes, edges,
\* affected_nodes, affected_edges, _messages, _history
NewLists ==
    <<[i \in 1..Len(NodeSeq) |-> DictRef(2 * i)],
      [j \in 1..Len(EdgeSeq) |-> DictRef(2 * Len(NodeSeq) + j)],
      << >>, << >>, << >>, << >> >>

StoreNew == [dicts |-> EnvDicts, lists |-> NewLists]

EnvObject ==
    LET base == 2 * Len(NodeSeq) + Len(EdgeSeq)
    IN [time_step |-> Num(0), scenario |-> Text("None"),
        disaster |-> Flag(FALSE), phase |-> Text("idle"),
        rebuild_progress |-> Num(0), cooldown_counter |-> Num(0),
        victims |-> Num(0), victims_saved |-> Num(0),
        seismic_level |-> Num(0), aftershock |-> Flag(FALSE),
        roads_blocked |-> Flag(FALSE),
        resources |-> DictRef(base + 1),
        resources_used |-> DictRef(base + 2),
        initial_resources |-> DictRef(base + 3),
        params |-> DictRef(base + 4),
        nodes |-> ListRef(1), edges |-> ListRef(2),
        affected_nodes |-> ListRef(3), affected_edges |-> ListRef(4),
        stats |-> DictRef(base + 5)]

BusObject ==
    [messages |-> ListRef(5), history |-> ListRef(6), counter |-> 0,
     offsets |-> << >>, max_history |-> DefaultMaxHistory]

\* d.copy(), dict(d) and the one-level comprehensions over a dict: new
\* objects with the keys and the values of the old ones
CopiedDicts(st, refs) == [i \in 1..Len(refs) |-> st.dicts[refs[i].v]]

\* Environment.get_observation
GetObservation(st, e) ==
    LET flat == <<e.resources, e.resources_used, e.initial_resources,
                  e.params, e.stats>>
        nodeRefs == st.lists[e.nodes.v]
        edgeRefs == st.lists[e.edges.v]
        base == Len(st.dicts)
        nn == Len(nodeRefs)
        dicts1 == st.dicts \o CopiedDicts(st, flat \o nodeRefs \o edgeRefs)
        lbase == Len(st.lists)
        lists1 == st.lists \o
                    <<[i \in 1..nn |-> DictRef(base + 5 + i)],
                      [j \in 1..Len(edgeRefs) |-> DictRef(base + 5 + nn + j)],
                      st.lists[e.affected_nodes.v],
                      st.lists[e.affected_edges.v]>>
        top == [e EXCEPT !.resources = DictRef(base + 1),
                         !.resources_used = DictRef(base + 2),
                         !.initial_resources = DictRef(base + 3),
                         !.params = DictRef(base + 4),
                         !.stats = DictRef(base + 5),
                         !.nodes = ListRef(lbase + 1),
                         !.edges = ListRef(lbase + 2),
                         !.affected_nodes = ListRef(lbase + 3),
                         !.affected_edges = ListRef(lbase + 4)]
    IN [store |-> [dicts |-> Append(dicts1, top), lists |-> lists1],
        ret |-> DictRef(Len(dicts1) + 1)]

\* a list built by the operation and handed out
Returned(st, items) ==
    [store |-> [st EXCEPT !.lists = Append(@, items)],
     ret |-> ListRef(Len(st.lists) + 1)]

MsgId(st, m) == st.dicts[m.v].id.v

\* MessageBus.send with the caller's payload dict
StoreSend(st, b, sender, msgType, payload, priority) ==
    LET id == b.counter + 1
        msg == [id |-> Num(id), type |-> Text(msgType),
                sender |-> Text(sender), payload |-> payload,
                priority |-> Num(priority), ts |-> Num(0)]
        m == DictRef(Len(st.dicts) + 1)
    IN [store |-> [dicts |-> Append(st.dicts, msg),
                   lists |-> [st.lists EXCEPT
                      ![b.messages.v] = Append(@, m),
                      ![b.history.v] = DequeAppend(@, m, b.max_history)]],
        bus |-> [b EXCEPT !.counter = id]]

\* MessageBus.read_all
StoreReadAll(st, b, c, clear) ==
    LET msgs == st.lists[b.messages.v]
    IN IF clear
       THEN Returned([st EXCEPT !.lists[b.messages.v] = << >>], msgs)
       ELSE Returned(st, SelectSeq(msgs,
                        LAMBDA m : MsgId(st, m) > Cursor(b, c)))

StoreReadAllBus(st, b, c, clear) ==
    LET msgs == st.lists[b.messages.v]
    IN IF ~clear /\ msgs # << >>
       THEN [b EXCEPT !.offsets = SetOffset(@, c, MsgId(st, msgs[Len(msgs)]))]
       ELSE b

\* MessageBus.read_recent
StoreReadRecent(st, b, count) ==
    Returned(st, SliceFromNeg(st.lists[b.history.v], count))

\* MessageBus.get_history
StoreGetHistory(st, b, sinceId) ==
    Returned(st, SelectSeq(st.lists[b.history.v],
                           LAMBDA m : MsgId(st, m) > sinceId))

IsRef(x) == x.k \in {"dict", "list"}

Object(st, r) == IF r.k = "dict" THEN st.dicts[r.v] ELSE st.lists[r.v]

\* the objects a value leads to
RECURSIVE Reach(_, _)
Reach(st, x) ==
    IF ~IsRef(x) THEN {}
    ELSE {x} \cup UNION {Reach(st, Object(st, x)[key]) :
                            key \in DOMAIN Object(st, x)}

\* a value with the objects it leads to written out
RECURSIVE Deep(_, _)
Deep(st, x) ==
    IF ~IsRef(x) THEN x.v
    ELSE [key \in DOMAIN Object(st, x) |-> Deep(st, Object(st, x)[key])]

\* the state of the Environment and the messages the bus stores
LiveValue(st, e, b) ==
    [env |-> [f \in DOMAIN e |-> Deep(st, e[f])],
     messages |-> Deep(st, b.messages),
     history |-> Deep(st, b.history)]

\* another value of the same kind
Other(x) ==
    IF x.k = "int" THEN Num(-1)
    ELSE IF x.k = "str" THEN Text("changed")
    ELSE Flag(~x.v)

\* container[key] = value, by the caller
Assign(st, r, key, x) ==
    IF r.k = "dict" THEN [st EXCEPT !.dicts[r.v][key] = x]
    ELSE [st EXCEPT !.lists[r.v][key] = x]

AliasUsed == [sends |-> 0, reads |-> 0, writes |-> 0]

Handed(op, res) ==
    /\ obsv' = res.store
    /\ last' = [op |-> op, ret |-> res.ret,
                live |-> LiveValue(res.store, env', bus')]
    /\ ext' = [ext EXCEPT !.reads = @ + 1]

AliasSend ==
    /\ ext.sends < MaxAliasSends
    /\ \E priority \in {5, 10} :
         LET payload == DictRef(Len(obsv.dicts) + 1)
             st == [obsv EXCEPT !.dicts = Append(@, [victims |-> Num(100)])]
             res == StoreSend(st, bus, "ReflexAgent", "alert", payload,
                              priority)
         IN /\ obsv' = res.store
            /\ bus' = res.bus
    /\ last' = [op |-> "send"]
    /\ ext' = [ext EXCEPT !.sends = @ + 1]
    /\ UNCHANGED <<env, orch, agents, thr>>

AliasObserve ==
    /\ ext.reads < MaxAliasReads
    /\ UNCHANGED <<env, bus>>
    /\ Handed("get_observation", GetObservation(obsv, env))
    /\ UNCHANGED <<orch, agents, thr>>

AliasReadAll ==
    /\ ext.reads < MaxAliasReads
    /\ \E c \in {"ui"}, clear \in BOOLEAN :
         /\ bus' = StoreReadAllBus(obsv, bus, c, clear)
         /\ UNCHANGED env
         /\ Handed("read_all", StoreReadAll(obsv, bus, c, clear))
    /\ UNCHANGED <<orch, agents, thr>>

AliasReadRecent ==
    /\ ext.reads < MaxAliasReads
    /\ UNCHANGED <<env, bus>>
    /\ \E count \in 1..MaxAliasSends :
         Handed("read_recent", StoreReadRecent(obsv, bus, count))
    /\ UNCHANGED <<orch, agents, thr>>

AliasGetHistory ==
    /\ ext.reads < MaxAliasReads
    /\ UNCHANGED <<env, bus>>
    /\ \E since \in 0..(MaxAliasSends - 1) :
         Handed("get_history", StoreGetHistory(obsv, bus, since))
    /\ UNCHANGED <<orch, agents, thr>>

\* the caller changes one part of the value it was handed
AliasWrite ==
    /\ ext.writes < MaxAliasWrites
    /\ "ret" \in DOMAIN last
    /\ \E r \in Reach(obsv, last.ret) :
         \E key \in DOMAIN Object(obsv, r) :
            /\ ~IsRef(Object(obsv, r)[key])
            /\ obsv' = Assign(obsv, r, key, Other(Object(obsv, r)[key]))
            /\ last' = [op |-> "write", ret |-> last.ret,
                        read |-> last.op, key |-> key,
                        live |-> LiveValue(obsv, env, bus)]
    /\ ext' = [ext EXCEPT !.writes = @ + 1]
    /\ UNCHANGED <<env, bus, orch, agents, thr>>

InitAlias ==
    /\ env = EnvObject
    /\ bus = BusObject
    /\ orch = OrchNew
    /\ agents = AgentsNew
    /\ last = [op |-> "init"]
    /\ ext = AliasUsed
    /\ thr = NoThreads
    /\ obsv = StoreNew

NextAlias ==
    \/ AliasSend
    \/ AliasObserve
    \/ AliasReadAll
    \/ AliasReadRecent
    \/ AliasGetHistory
    \/ AliasWrite

SpecAlias == InitAlias /\ [][NextAlias]_vars

(***************************************************************************)
(* The rebuild phase followed to its end: one trigger whose response the   *)
(* ambulances finish, then cycles until the phase is recovered.  obsv      *)
(* counts, for every milestone, the milestone messages of the phase.       *)
(***************************************************************************)
\* cycles explored after the trigger
MaxRebuildTicks == 72
\* cycles whose random factor is either end of its range; the later ones
\* draw the upper end
MaxFactorTicks == 6

\* the ledgers the caller supplies: nothing to rebuild with; two crews and
\* food for two more; crews, drones and food in plenty
RebuildInputs ==
    {[scenario |-> "flood", intensity |-> 10,
      resources |-> [ambulances |-> 200, drones |-> 0, medical_kits |-> 0,
                     repair_crews |-> 0, food_packs |-> 0]],
     [scenario |-> "flood", intensity |-> 10,
      resources |-> [ambulances |-> 200, drones |-> 0, medical_kits |-> 0,
                     repair_crews |-> 2, food_packs |-> 13]],
     [scenario |-> "flood", intensity |-> 10,
      resources |-> [ambulances |-> 200, drones |-> 3, medical_kits |-> 40,
                     repair_crews |-> 6, food_packs |-> 50]]}

MilestoneSet == {Milestones[i] : i \in DOMAIN Milestones}

MilestoneLogNew == [m \in MilestoneSet |-> 0]

\* the log with the milestone messages among msgs counted
MilestoneLogged(log, msgs) ==
    [m \in MilestoneSet |->
        log[m] + Len(SelectSeq(msgs, LAMBDA x : x.type = "milestone"
                                                /\ x.payload.milestone = m))]

RebuildTrigger ==
    /\ ext.calls = 0
    /\ TriggerWith(RebuildInputs)

RebuildCycle ==
    /\ env.phase \in {"response", "rebuild"}
    /\ ext.ticks < MaxRebuildTicks
    /\ RunCycleStep({{}})
    /\ Ticked
    /\ (env.phase = "rebuild" /\ ext.ticks >= MaxFactorTicks) =>
          env'.rebuild_progress =
             Min(10000, env.rebuild_progress
                        + RebuildIncrement(last'.envs[6], 119))
    /\ obsv' = IF env.phase = "rebuild"
               THEN MilestoneLogged(obsv, SentSince(bus', bus.counter))
               ELSE MilestoneLogNew
    /\ UNCHANGED thr

InitRebuild ==
    /\ env = EnvNew
    /\ bus = BusNew(DefaultMaxHistory)
    /\ orch = OrchNew
    /\ agents = AgentsNew
    /\ last = [op |-> "init"]
    /\ ext = NoneUsed
    /\ thr = NoThreads
    /\ obsv = MilestoneLogNew

NextRebuild ==
    \/ RebuildTrigger
    \/ RebuildCycle

SpecRebuild == InitRebuild /\ [][NextRebuild]_vars

(***************************************************************************)
(* The recovered phase: one trigger with a ledger that ends response and   *)
(* rebuild at once, then cycles through the cooldown up to the disaster     *)
(* that update starts.  obsv keeps the cooldown drawn at entry and counts  *)
(* the updates made in the recovered phase.                                *)
(***************************************************************************)
\* cycles explored after the trigger
MaxCooldownTicks == 11

CooldownInputs ==
    {[scenario |-> "wildfire", intensity |-> 50,
      resources |-> [ambulances |-> 200, repair_crews |-> 60]]}

CooldownLogNew == [entry |-> 0, ticks |-> 0]

CooldownTrigger ==
    /\ ext.calls = 0
    /\ TriggerWith(CooldownInputs)

\* the cycles of the first disaster and of the recovered phase after it
CooldownCycle ==
    /\ env.phase # "idle"
    /\ env.stats.disasters_completed = 0 \/ env.phase = "recovered"
    /\ ext.ticks < MaxCooldownTicks
    /\ RunCycleStep({{}})
    /\ Ticked
    /\ obsv' = IF env.phase = "rebuild" /\ env'.phase = "recovered"
               THEN [entry |-> env'.cooldown_counter, ticks |-> 0]
               ELSE IF env.phase = "recovered"
               THEN [obsv EXCEPT !.ticks = @ + 1]
               ELSE obsv
    /\ UNCHANGED thr

InitCooldown ==
    /\ env = EnvNew
    /\ bus = BusNew(DefaultMaxHistory)
    /\ orch = OrchNew
    /\ agents = AgentsNew
    /\ last = [op |-> "init"]
    /\ ext = NoneUsed
    /\ thr = NoThreads
    /\ obsv = CooldownLogNew

NextCooldown ==
    \/ CooldownTrigger
    \/ CooldownCycle

SpecCooldown == InitCooldown /\ [][NextCooldown]_vars

(***************************************************************************)
(* Victims of one disaster: one trigger, then cycles and calls of          *)
(* save_victims.  obsv adds up the victims that the updates of the         *)
(* response phase added since the trigger.                                 *)
(***************************************************************************)
VictimLogNew == [added |-> 0]

MaxVictimTicks == 4

\* a disaster with few ambulances, one rescued in one cycle, and one that
\* is rebuilt within the ticks
VictimInputs ==
    {[scenario |-> "earthquake", intensity |-> 60,
      resources |-> [ambulances |-> 2, drones |-> 1, medical_kits |-> 3,
                     repair_crews |-> 0, food_packs |-> 2]],
     [scenario |-> "flood", intensity |-> 10,
      resources |-> [ambulances |-> 200, drones |-> 0, medical_kits |-> 0,
                     repair_crews |-> 2, food_packs |-> 13]],
     [scenario |-> "wildfire", intensity |-> 50,
      resources |-> [ambulances |-> 200, repair_crews |-> 60]]}

VictimsTrigger ==
    /\ ext.calls = 0
    /\ TriggerWith(VictimInputs)

\* save_victims called with counts that are not negative
VictimCounts == {0, 4, 100000}

VictimsSave ==
    /\ ext.calls < MaxExt
    /\ Called
    /\ \E count \in VictimCounts :
          \E r \in {SaveVictims(env, count)} :
             /\ env' = r[1]
             /\ last' = [op |-> "save_victims", count |-> count,
                         ret |-> r[2], pre |-> env]
    /\ UNCHANGED <<bus, orch, agents, thr, obsv>>

VictimsCycle ==
    /\ env.phase # "idle"
    /\ ext.ticks < MaxVictimTicks
    /\ RunCycleStep({{}})
    /\ Ticked
    /\ obsv' = IF env.phase = "response"
               THEN [added |-> obsv.added
                                  + (env'.victims - last'.envs[6].victims)]
               ELSE IF env'.phase = "response" THEN VictimLogNew
               ELSE obsv
    /\ UNCHANGED thr

InitVictims ==
    /\ env = EnvNew
    /\ bus = BusNew(DefaultMaxHistory)
    /\ orch = OrchNew
    /\ agents = AgentsNew
    /\ last = [op |-> "init"]
    /\ ext = NoneUsed
    /\ thr = NoThreads
    /\ obsv = VictimLogNew

NextVictims ==
    \/ VictimsTrigger
    \/ VictimsCycle
    \/ VictimsSave

SpecVictims == InitVictims /\ [][NextVictims]_vars

(***************************************************************************)
(* The phases under trigger_disaster from any phase, run_cycle and reset,  *)
(* with a thread that calls get_observation between them: every one of     *)
(* these methods holds the lock of the environment from its first          *)
(* statement to its last.  obsv is the last snapshot returned.             *)
(***************************************************************************)
MaxPhaseTicks == 3

\* a disaster that is over within the ticks, one that blocks roads, and a
\* scenario without affected nodes
PhaseInputs ==
    {[scenario |-> "wildfire", intensity |-> 50,
      resources |-> [ambulances |-> 200, repair_crews |-> 60]],
     [scenario |-> "earthquake", intensity |-> 60,
      resources |-> [ambulances |-> 200, repair_crews |-> 60]],
     [scenario |-> "tsunami", intensity |-> 0,
      resources |-> [ambulances |-> 1]]}

\* what get_observation copies of the environment, as far as the phases go
Snapshot(e) ==
    [disaster |-> e.disaster, phase |-> e.phase, victims |-> e.victims,
     roads_blocked |-> e.roads_blocked, blocked |-> e.blocked,
     affected_nodes |-> e.affected_nodes,
     affected_edges |-> e.affected_edges]

PhaseTrigger == TriggerWith(PhaseInputs)

PhaseCycle ==
    /\ env.phase # "idle"
    /\ ext.ticks < MaxPhaseTicks
    /\ RunCycleStep({{}})
    /\ Ticked
    /\ UNCHANGED <<thr, obsv>>

\* explored when the phase is not that of the last snapshot
PhaseObserve ==
    /\ obsv.phase # env.phase
    /\ obsv' = Snapshot(env)
    /\ UNCHANGED <<env, bus, orch, agents, last, ext, thr>>

InitPhase ==
    /\ env = EnvNew
    /\ bus = BusNew(DefaultMaxHistory)
    /\ orch = OrchNew
    /\ agents = AgentsNew
    /\ last = [op |-> "init"]
    /\ ext = NoneUsed
    /\ thr = NoThreads
    /\ obsv = Snapshot(EnvNew)

NextPhase ==
    \/ PhaseTrigger
    \/ PhaseCycle
    \/ ResetEnv
    \/ OrchReset
    \/ PhaseObserve

SpecPhase == InitPhase /\ [][NextPhase]_vars

(***************************************************************************)
(* Properties                                                              *)
(***************************************************************************)
\* the order Reflex, DroneRecon, Goal, Utility, Rebuild
ExpectedOrder ==
    <<"ReflexAgent", "DroneReconAgent", "GoalAgent", "UtilityAgent",
      "RebuildAgent">>

StrictlyIncreasing(q) == \A i, j \in DOMAIN q : i < j => q[i] < q[j]

\* a completed cycle is the last call
CycleDone == last.op = "run_cycle" /\ ~last.paused

\* the phase before the last call
PhaseBefore ==
    CASE last.op \in {"trigger_disaster", "reset", "orchestrator_reset"} ->
            last.phase_before
      [] last.op \in {"use_resource", "save_victims"} -> last.pre.phase
      [] last.op = "run_cycle" ->
            (IF last.paused THEN last.pre.env.phase ELSE last.envs[1].phase)
      [] OTHER -> env.phase

\* the last call was a cycle whose update, not an act, changed the phase
ByUpdate ==
    /\ CycleDone
    /\ \A i \in DOMAIN last.envs : last.envs[i].phase = PhaseBefore

\* the three edges update takes
UpdateEdge ==
    \/ /\ ByUpdate
       /\ PhaseBefore = "response" /\ env.phase = "rebuild"
       /\ env.victims = 0 /\ ~env.aftershock
    \/ /\ ByUpdate
       /\ PhaseBefore = "rebuild" /\ env.phase = "recovered"
       /\ env.rebuild_progress >= 10000
    \/ /\ ByUpdate
       /\ PhaseBefore = "recovered" /\ env.phase = "response"
       /\ last.envs[Len(last.envs)].cooldown_counter = 0

\* C1: in every state reached by any sequence of trigger_disaster,
\* run_cycle, use_resource, save_victims and reset, victims >= 0 and each
\* of the five ledger counts is >= 0; so it is between the acts of a cycle.
C1_NonNegative ==
    /\ env.victims >= 0
    /\ \A k \in ResourceNames : env.resources[k] >= 0
    /\ CycleDone =>
         \A i \in DOMAIN last.envs :
            /\ last.envs[i].victims >= 0
            /\ \A k \in ResourceNames : last.envs[i].resources[k] >= 0

\* a trigger that was handed drones = -3, then save_victims(100000)
C1_Witness ==
    /\ last.op = "save_victims"
    /\ last.count = 100000
    /\ last.ret > 0
    /\ env.victims = 0
    /\ env.resources["drones"] = 0
    /\ env.resources["food_packs"] = 7

\* C2 as stated: the phase changes only from idle to response by
\* trigger_disaster, and along the three edges of update (response to
\* rebuild with victims = 0 and no aftershock, rebuild to recovered with
\* rebuild_progress >= 100, recovered to response with cooldown_counter 0).
C2_OnlyListedEdges ==
    PhaseBefore # env.phase =>
        \/ /\ last.op = "trigger_disaster"
           /\ PhaseBefore = "idle" /\ env.phase = "response"
        \/ UpdateEdge

\* C2, amended: the phase changes only to response by trigger_disaster
\* (from any phase), to idle by reset (from any phase), and along the three
\* edges of update.
C2_PhaseEdges ==
    PhaseBefore # env.phase =>
        \/ last.op = "trigger_disaster" /\ env.phase = "response"
        \/ last.op \in {"reset", "orchestrator_reset"} /\ env.phase = "idle"
        \/ UpdateEdge

\* trigger_disaster called in the rebuild phase
C2_Witness ==
    /\ last.op = "trigger_disaster"
    /\ last.phase_before = "rebuild"
    /\ env.phase = "response"

\* what read_all(c) would return now
Pending(b, c) == ReadAllResult(b, c, FALSE)

\* C3 as stated: for a consumer that called read_all(c), what it was
\* handed is in increasing id order, nothing twice, and no message sent
\* since its first call and before its latest is missing.
C3_NothingSkipped ==
    \A c \in Consumers :
        obsv.first[c] >= 0 =>
            /\ StrictlyIncreasing(obsv.delivered[c])
            /\ \A id \in (obsv.first[c] + 1)..obsv.seen[c] :
                   id \in Range(obsv.delivered[c])

\* C3, amended: what read_all(c) handed to c is in increasing id order,
\* nothing twice, and is every message sent before c's latest call (those
\* sent before its first call too) except the messages that a
\* read_all(clear=true) or a clear_old_messages took off the active list
\* before c was handed them.
C3_ReplayButDropped ==
    \A c \in Consumers :
        obsv.first[c] >= 0 =>
            /\ StrictlyIncreasing(obsv.delivered[c])
            /\ Range(obsv.delivered[c]) = (1..obsv.seen[c]) \ obsv.skipped[c]

\* a consumer that was handed two messages and missed one sent in between
C3_Witness ==
    \E c \in Consumers :
        /\ obsv.first[c] >= 0
        /\ Len(obsv.delivered[c]) >= 2
        /\ \E id \in obsv.skipped[c] :
               /\ id > obsv.first[c]
               /\ obsv.delivered[c][1] < id
               /\ id < obsv.delivered[c][Len(obsv.delivered[c])]

\* C4: read_all(c) with clear=false returns exactly the active messages
\* whose id is over c's cursor, in id order, then c's cursor is the newest
\* id of the active list; it changes neither the lists nor what another
\* consumer's read_all would return; and a read_all(c) with no send since
\* c's latest read_all(c) would return nothing.
C4_ReadAll ==
    /\ (last.op = "read_all" /\ ~last.clear) =>
         LET c == last.consumer
             pre == last.pre
             ret == last.ret
             cur == IF c \in DOMAIN pre.offsets THEN pre.offsets[c] ELSE 0
         IN /\ \A i \in DOMAIN ret :
                   ret[i] \in Range(pre.messages) /\ ret[i].id > cur
            /\ \A m \in Range(pre.messages) : m.id > cur => m \in Range(ret)
            /\ \A i, j \in DOMAIN ret : i < j => ret[i].id < ret[j].id
            /\ pre.messages # << >> =>
                   /\ c \in DOMAIN bus.offsets
                   /\ bus.offsets[c] = pre.messages[Len(pre.messages)].id
                   /\ \A m \in Range(pre.messages) : m.id <= bus.offsets[c]
            /\ bus.messages = pre.messages
            /\ bus.history = pre.history
            /\ bus.counter = pre.counter
            /\ \A c2 \in Consumers \ {c} : Pending(bus, c2) = Pending(pre, c2)
    /\ \A c \in Consumers :
         (obsv.first[c] >= 0 /\ bus.counter = obsv.seen[c]) =>
             Pending(bus, c) = << >>

\* send(A, x), send(B, y), read_all(c1) returned both; again it would
\* return nothing, and c2 would still be handed both
C4_Witness ==
    /\ last.op = "read_all" /\ ~last.clear /\ last.consumer = "c1"
    /\ Len(last.ret) = 2
    /\ last.ret[1].sender = "A" /\ last.ret[1].type = "x"
    /\ last.ret[2].sender = "B" /\ last.ret[2].type = "y"
    /\ Pending(bus, "c1") = << >>
    /\ Len(Pending(bus, "c2")) = 2

\* C5: since the bus was new or reset the k-th send to return returned k,
\* whatever the threads and their interleaving, and the active list and the
\* history are in id order, no id twice.
C5_SendIds ==
    /\ \A k \in DOMAIN thr.returned : thr.returned[k].id = k
    /\ StrictlyIncreasing(IdSeq(bus.messages))
    /\ StrictlyIncreasing(IdSeq(bus.history))
    /\ \A i \in DOMAIN bus.messages : bus.messages[i].id = i

\* two threads have sent, one holds the lock again and the other waits
C5_Witness ==
    /\ Len(thr.returned) = 2
    /\ thr.returned[1].thread # thr.returned[2].thread
    /\ \E t \in Threads :
          /\ thr.pc[t] = "acquire"
          /\ thr.owner \notin {0, t}
          /\ thr.pc[thr.owner] = "store"

\* C6: a run_cycle that is not paused returns the cycle count raised by
\* one, calls act on Reflex, DroneRecon, Goal, Utility, Rebuild in this
\* order, then update once, then clear_old_messages(100) exactly when the
\* new count is a multiple of 10; the messages of the cycle are on the bus
\* in the order of their senders.
C6_CycleOrder ==
    CycleDone =>
        /\ last.ret.cycle = last.cycle_before + 1
        /\ orch.cycle_count = last.ret.cycle
        /\ Len(last.calls) \in {6, 7}
        /\ \A i \in 1..5 :
              last.calls[i] = [target |-> ExpectedOrder[i], op |-> "act"]
        /\ last.calls[6] = [target |-> "Environment", op |-> "update"]
        /\ (Len(last.calls) = 7) <=> (last.ret.cycle % 10 = 0)
        /\ Len(last.calls) = 7 =>
              last.calls[7] = [target |-> "MessageBus",
                               op |-> "clear_old_messages",
                               keep_recent |-> 100]
        /\ Len(last.counters) = 6
        /\ bus.counter = last.counters[6]
        /\ StrictlyIncreasing(IdSeq(bus.history))
        /\ \A j \in DOMAIN bus.history :
              bus.history[j].id > last.counters[1] =>
                  \E i \in 1..5 :
                     /\ bus.history[j].id > last.counters[i]
                     /\ bus.history[j].id <= last.counters[i + 1]
                     /\ bus.history[j].sender = ExpectedOrder[i]
        /\ last.envs[6].phase # "idle" =>
              env.stats.total_time_steps =
                  last.envs[6].stats.total_time_steps + 1
        /\ last.envs[6].phase = "idle" => env = last.envs[6]

\* the tenth cycle, in a disaster: four agents sent, the bus was compacted
C6_Witness ==
    /\ CycleDone
    /\ last.ret.cycle = 10
    /\ Len(last.calls) = 7
    /\ \A i \in 1..4 : last.counters[i + 1] > last.counters[i]

\* C7: run_cycle returns at once exactly when the orchestrator is paused;
\* then it returns the cycle count and the environment, the bus, the agents
\* and the cycle count are what they were; when it is not paused (after
\* resume) it runs a cycle.
C7_PausedNoOp ==
    last.op = "run_cycle" =>
        /\ last.paused = last.flag
        /\ last.paused =>
              /\ last.ret = [status |-> "paused", cycle |-> orch.cycle_count]
              /\ last.pre.env = env
              /\ last.pre.bus = bus
              /\ last.pre.agents = agents
              /\ last.pre.cycle_count = orch.cycle_count
        /\ ~last.paused =>
              /\ last.ret.status = "completed"
              /\ last.ret.cycle = last.cycle_before + 1

\* run_cycle called while paused in a response, messages on the bus
C7_Witness ==
    /\ last.op = "run_cycle" /\ last.paused
    /\ orch.paused
    /\ env.phase = "response"
    /\ env.time_step >= 1
    /\ bus.messages # << >>

\* C8: when the act of an agent raises in a cycle, the cycle's result
\* holds "error" for that agent and "success" for the others, act was
\* called on all five in order, update ran once, and the status is
\* completed.
C8_FailIsolated ==
    CycleDone =>
        /\ Len(last.ret.agent_results) = 5
        /\ \A i \in 1..5 :
              last.ret.agent_results[i] =
                  [agent |-> ExpectedOrder[i],
                   status |-> IF ExpectedOrder[i] \in last.fails
                              THEN "error" ELSE "success"]
        /\ \A i \in 1..5 :
              last.calls[i] = [target |-> ExpectedOrder[i], op |-> "act"]
        /\ Cardinality({i \in DOMAIN last.calls :
                            last.calls[i].op = "update"}) = 1
        /\ last.calls[6].op = "update"
        /\ last.envs[6].phase # "idle" =>
              env.stats.total_time_steps =
                  last.envs[6].stats.total_time_steps + 1
        /\ last.ret.status = "completed"

\* GoalAgent raised, UtilityAgent after it saved victims, update ticked
C8_Witness ==
    /\ CycleDone
    /\ last.fails = {"GoalAgent"}
    /\ last.counters[5] > last.counters[4]
    /\ last.envs[5].victims_saved > last.envs[4].victims_saved
    /\ env.stats.total_time_steps = last.envs[6].stats.total_time_steps + 1

\* C9: use_resource on a known name returns min(amount, available), takes
\* it from the ledger count and adds it to the used counter, the count
\* stays >= 0; on an unknown name it returns 0 and the environment is what
\* it was.
C9_UseResource ==
    last.op = "use_resource" =>
        IF last.name \in DOMAIN last.pre.resources
        THEN /\ last.ret = (IF last.amount <= last.pre.resources[last.name]
                            THEN last.amount
                            ELSE last.pre.resources[last.name])
             /\ env.resources[last.name] =
                    last.pre.resources[last.name] - last.ret
             /\ env.resources_used[last.name] =
                    last.pre.resources_used[last.name] + last.ret
             /\ env.resources[last.name] >= 0
        ELSE last.ret = 0 /\ env = last.pre

\* use_resource("food_packs", 1000) with 50 at hand returned 50, 0 is left
C9_Witness ==
    /\ last.op = "use_resource"
    /\ last.name = "food_packs" /\ last.amount = 1000
    /\ last.pre.resources["food_packs"] = 50
    /\ last.ret = 50
    /\ env.resources["food_packs"] = 0

\* C10: in a cycle UtilityAgent takes at most min(5, kits at hand) medical
\* kits and at most min(3, food at hand) food packs, leaves ambulances and
\* drones as they are, and saves no more victims than there were before
\* its act.
C10_UtilityBounds ==
    CycleDone =>
        LET b == last.envs[4]
            a == last.envs[5]
            kits == b.resources["medical_kits"] - a.resources["medical_kits"]
            food == b.resources["food_packs"] - a.resources["food_packs"]
            saved == a.victims_saved - b.victims_saved
        IN /\ 0 <= kits /\ kits <= 5 /\ kits <= b.resources["medical_kits"]
           /\ 0 <= food /\ food <= 3 /\ food <= b.resources["food_packs"]
           /\ a.resources["ambulances"] = b.resources["ambulances"]
           /\ a.resources["drones"] = b.resources["drones"]
           /\ 0 <= saved /\ saved <= b.victims
           /\ a.victims = b.victims - saved

\* 5 kits and 3 food packs taken of more, and 2 kits taken of 2
C10_Witness ==
    /\ CycleDone
    /\ last.envs[4].resources["medical_kits"] = 2
    /\ last.envs[5].resources["medical_kits"] = 0
    /\ last.envs[4].resources["food_packs"] - last.envs[5].resources["food_packs"] = 3
    /\ last.envs[5].victims_saved > last.envs[4].victims_saved

\* the last call was a cycle that the agents began in that phase
CycleIn(phase) == CycleDone /\ last.envs[1].phase = phase

\* the messages the last cycle sent
CycleMessages == SentSince(bus, last.counters[1])

\* C11: within one response phase the drone agent's scanned set never
\* shrinks (what a recon message of the phase listed stays in the set);
\* each recon message lists at most 2 x drones nodes, all of them affected
\* and none listed earlier in the phase; and with drones > 0 the scanned set
\* is the affected set once enough cycles of the phase have run (each cycle
\* of a phase raises time_step by one and scans 2 x drones nodes).
C11_ReconCoverage ==
    /\ env.phase = "response" =>
          obsv.listed \subseteq agents.drone.scanned_nodes
    /\ CycleIn("response") =>
          /\ \A i \in DOMAIN CycleMessages :
                CycleMessages[i].type = "recon" =>
                   /\ Cardinality(CycleMessages[i].payload.nodes_scanned)
                         <= ScanRadius * last.envs[2].resources["drones"]
                   /\ CycleMessages[i].payload.nodes_scanned
                         \subseteq last.envs[2].affected_nodes
          /\ obsv.entries = Cardinality(obsv.listed)
    /\ (/\ env.phase = "response"
        /\ env.resources["drones"] > 0
        /\ ScanRadius * env.resources["drones"] * env.time_step
              >= Cardinality(env.affected_nodes))
       => agents.drone.scanned_nodes = env.affected_nodes

\* C12: in every response phase, however it was entered, recon_complete is
\* sent at most once, and it is sent once the affected set is fully
\* scanned: a cycle of the phase in which the drone agent, with drones > 0,
\* finds every affected node scanned (and so sends no recon) leaves the
\* phase with its recon_complete sent.
C12_CompleteOnce ==
    /\ obsv.completes <= 1
    /\ (/\ CycleIn("response")
        /\ last.envs[2].resources["drones"] > 0
        /\ last.envs[2].affected_nodes # {}
        /\ last.envs[2].affected_nodes \subseteq agents.drone.scanned_nodes
        /\ OfType(CycleMessages, "recon") = << >>)
       => obsv.completes = 1

\* longer than any path
Unreachable == 1000000

\* the edges that join a and b among the edges E
Joining(a, b, E) ==
    {i \in E : \/ EdgeTable[i].from = a /\ EdgeTable[i].to = b
               \/ EdgeTable[i].from = b /\ EdgeTable[i].to = a}

\* the smallest number of a non-empty set
Least(S) == CHOOSE x \in S : \A y \in S : x <= y

\* one round of relaxation of the distances d from the command center
Relaxed(d, E) ==
    [n \in NodeIds |->
        Least({d[n]} \cup
              {d[IF EdgeTable[i].from = n THEN EdgeTable[i].to
                 ELSE EdgeTable[i].from] + EdgeTable[i].distance :
                  i \in {k \in E : EdgeTable[k].from = n
                                   \/ EdgeTable[k].to = n}})]

RECURSIVE RelaxedTimes(_, _, _)
RelaxedTimes(d, E, k) ==
    IF k = 0 THEN d ELSE RelaxedTimes(Relaxed(d, E), E, k - 1)

\* the shortest-path distance from the command center to n over the edges
\* E, by relaxation; Unreachable or more when there is no path
ShortestDistance(n, E) ==
    RelaxedTimes([m \in NodeIds |->
                     IF m = CommandCenter THEN 0 ELSE Unreachable],
                 E, Cardinality(NodeIds) - 1)[n]

RECURSIVE PathLength(_, _)
\* the length of a path of nodes over the edges E, each step by the
\* shortest edge of E that joins its ends
PathLength(path, E) ==
    IF Len(path) <= 1 THEN 0
    ELSE (IF Joining(path[1], path[2], E) = {} THEN Unreachable
          ELSE Least({EdgeTable[i].distance :
                         i \in Joining(path[1], path[2], E)}))
         + PathLength(Tail(path), E)

\* the plan the goal agent has just made
PlanMade == agents.goal.current_plan

\* C13: on the graph snapshot of the plan, every critical node that can be
\* reached has one route; each route starts at node 26, ends at its target
\* and follows existing edges; when an unblocked path exists the route is
\* labelled clear, uses no blocked edge and is as long as the shortest path
\* over the unblocked edges; otherwise it is labelled blocked_route and is as
\* long as the shortest path over all edges.
C13_ShortestRoutes ==
    last.op = "goal_act" =>
       /\ PlanMade.type = "rescue_plan"
       /\ \A t \in Range(PlanMade.critical_nodes) :
             ShortestDistance(t, EdgeIds) < Unreachable =>
                \E k \in DOMAIN PlanMade.routes :
                   PlanMade.routes[k].target_id = t
       /\ \A k \in DOMAIN PlanMade.routes :
             LET r == PlanMade.routes[k]
                 open == EdgeIds \ env.blocked
             IN /\ r.path[1] = CommandCenter
                /\ r.path[Len(r.path)] = r.target_id
                /\ PathLength(r.path, EdgeIds) < Unreachable
                /\ IF ShortestDistance(r.target_id, open) < Unreachable
                   THEN /\ r.status = "clear"
                        /\ PathLength(r.path, open)
                              = ShortestDistance(r.target_id, open)
                   ELSE /\ r.status = "blocked_route"
                        /\ PathLength(r.path, EdgeIds)
                              = ShortestDistance(r.target_id, EdgeIds)

\* the road from 3 to 23 and the highway from 0 to 2 are blocked: the route
\* to 23 goes round by 9, the route to 2 takes the blocked highway
C13_Witness ==
    /\ last.op = "goal_act"
    /\ env.blocked = {1, 25}
    /\ \E k \in DOMAIN PlanMade.routes :
          /\ PlanMade.routes[k].path = <<26, 0, 3, 9, 23>>
          /\ PlanMade.routes[k].status = "clear"
    /\ \E k \in DOMAIN PlanMade.routes :
          /\ PlanMade.routes[k].path = <<26, 0, 2>>
          /\ PlanMade.routes[k].status = "blocked_route"

\* C14: in every response phase the goal agent sends a plan in the first
\* cycle in which it observes victims > 0 (so a cycle of the phase in which
\* it observes victims > 0 never leaves the phase without a plan), and two
\* plans of one phase are at least 3 time steps apart.
C14_PlanTiming ==
    /\ (CycleIn("response") /\ last.envs[3].victims > 0)
       => obsv.plans # << >>
    /\ \A i, j \in DOMAIN obsv.plans :
          i < j => obsv.plans[j] - obsv.plans[i] >= ReplanEvery

\* the phase in which the agent of that name is active
ActivePhase(name) == IF name = "RebuildAgent" THEN "rebuild" ELSE "response"

\* a response phase has just been entered, by /start or by the automatic
\* re-trigger of update
ResponseBegins ==
    /\ env.phase = "response"
    /\ last.op = "start_disaster" \/ (CycleDone /\ ~CycleIn("response"))

\* the private state that belongs to one response phase is as constructed
ScopedStateNew ==
    /\ agents.drone.scanned_nodes = AgentsNew.drone.scanned_nodes
    /\ agents.drone.recon_complete = AgentsNew.drone.recon_complete
    /\ agents.drone.recon_start_step = AgentsNew.drone.recon_start_step
    /\ agents.goal.current_plan = AgentsNew.goal.current_plan
    /\ agents.goal.last_plan_step = AgentsNew.goal.last_plan_step
    /\ agents.reflex.last_alert_step = AgentsNew.reflex.last_alert_step
    /\ agents.utility.deployed_resources
          = AgentsNew.utility.deployed_resources

\* C15: an agent sends messages only in cycles it began in its active
\* phase (response for Reflex, DroneRecon, Goal, Utility; rebuild for
\* Rebuild), and when a response phase begins every agent's phase-scoped
\* private state is at its initial value.
C15_PhaseScoped ==
    /\ CycleDone =>
          \A i \in DOMAIN CycleMessages :
             last.envs[1].phase = ActivePhase(CycleMessages[i].sender)
    /\ ResponseBegins => ScopedStateNew

\* C16: right after Orchestrator.reset the cycle count is 0, the
\* orchestrator is not paused, the environment is the idle baseline, the
\* bus is empty with counter 0 and no consumer cursors, and every agent
\* holds the private state of a newly constructed agent.
C16_ResetRestores ==
    last.op = "orchestrator_reset" =>
        /\ orch = OrchNew
        /\ env = EnvNew
        /\ bus = BusNew(bus.max_history)
        /\ agents = AgentsNew

\* trigger_disaster has just run: called from outside, or by update at the
\* end of the cooldown
JustTriggered ==
    \/ last.op = "trigger_disaster"
    \/ CycleIn("recovered") /\ env.phase = "response"

\* what a trigger with the arguments of the last call leaves of a state
\* that holds nothing of an earlier disaster
FromBaseline ==
    TriggerSet(EnvNew, last.scenario, last.intensity, last.resources)

\* C17: right after trigger_disaster, whatever the state before, phase is
\* response, seismic_level is the intensity clamped to [0, 1],
\* victims_saved, time_step, rebuild_progress and cooldown_counter are 0,
\* aftershock is false, and the affected nodes and edges and the blocked
\* flags are those this trigger alone computes.
C17_TriggerResets ==
    /\ JustTriggered =>
          /\ env.phase = "response"
          /\ env.victims_saved = 0 /\ env.time_step = 0
          /\ ~env.aftershock
          /\ env.rebuild_progress = 0 /\ env.cooldown_counter = 0
    /\ last.op = "trigger_disaster" =>
          /\ env.seismic_level = Max(0, Min(100, last.intensity))
          /\ \E t \in FromBaseline :
                /\ t.affected_nodes = env.affected_nodes
                /\ t.affected_edges = env.affected_edges
                /\ t.blocked = env.blocked

\* an earthquake has just been triggered from outside
QuakeDone == last.op = "trigger_disaster" /\ last.scenario = "earthquake"

\* population x 0.01 x seismic_level x vulnerability of node n as an exact
\* number: <<whole part, remainder in 100000ths>>
TermParts(n) ==
    LET k == env.seismic_level * Vulnerability(n, "earthquake")
        q == Population[n] \div 1000
        r == Population[n] % 1000
        low == ((q * k) % 100) * 1000 + r * k
    IN <<(q * k) \div 100 + low \div 100000, low % 100000>>

\* the sum of the whole parts and the sum of the remainders over all nodes
WholeSum == SumOver(NodeIds, [n \in NodeIds |-> TermParts(n)[1]])
RemainderSum == SumOver(NodeIds, [n \in NodeIds |-> TermParts(n)[2]])

\* C18 as stated: after an earthquake trigger every node is affected,
\* victims is max(10, the sum over the nodes of population x 0.01 x
\* seismic_level x vulnerability), and total_victims_initial is that value.
C18_ExactSum ==
    QuakeDone =>
        /\ env.affected_nodes = NodeIds
        /\ \/ WholeSum + RemainderSum \div 100000 < 10 /\ env.victims = 10
           \/ /\ RemainderSum % 100000 = 0
              /\ env.victims = Max(10, WholeSum + RemainderSum \div 100000)
        /\ env.stats.total_victims_initial = env.victims

\* C18: after an earthquake trigger every node is affected, victims is
\* max(10, the sum over the nodes of the node's population x 0.01 x
\* seismic_level x vulnerability cut to a whole number), and
\* total_victims_initial is that value.
C18_TruncatedSum ==
    QuakeDone =>
        /\ env.affected_nodes = NodeIds
        /\ env.victims = Max(10, WholeSum)
        /\ env.stats.total_victims_initial = env.victims

\* an earthquake on a disaster in progress where cutting each node's term
\* loses at least one whole victim of the exact sum
C18_Witness ==
    /\ QuakeDone /\ last.phase_before = "response"
    /\ env.victims > 10
    /\ env.victims < WholeSum + RemainderSum \div 100000

\* C19: right after Environment.reset the state is the idle baseline
\* (phase idle, no disaster, victims, victims_saved, seismic_level,
\* rebuild_progress, cooldown and time_step 0, aftershock and roads_blocked
\* false, the default ledger with its snapshot equal to it and nothing
\* used, no affected node or edge, no blocked edge, statistics zeroed), and
\* a second reset leaves it unchanged.
C19_ResetBaseline ==
    last.op = "reset" =>
        /\ env = EnvNew
        /\ EnvReset(env) = env

\* a reset after a completed disaster
C19_Witness ==
    /\ last.op = "reset" /\ last.phase_before = "recovered"
    /\ env = EnvNew /\ EnvReset(env) = env

\* the repair_alloc messages of the last cycle
CycleAllocs == OfType(CycleMessages, "repair_alloc")

\* the crews these messages report as added
AddedCrews ==
    IF CycleAllocs = << >> THEN 0 ELSE CycleAllocs[1].payload.added_crews

\* C20: in every cycle the act of the Rebuild agent raises repair_crews by
\* the added_crews of the repair_alloc message it sends (by nothing when it
\* sends none), lowers food_packs by exactly 5 x added_crews, adds no more
\* than the shortfall it asked for, and adds nothing when food_packs < 5.
C20_CrewsBacked ==
    CycleDone =>
        LET before == last.envs[5].resources
            after == last.envs[6].resources
        IN /\ Len(CycleAllocs) <= 1
           /\ after["repair_crews"] - before["repair_crews"] = AddedCrews
           /\ before["food_packs"] - after["food_packs"]
                 = FoodCostPerCrew * AddedCrews
           /\ AddedCrews <= Max(0, MinCrewsForRebuild - before["repair_crews"])
           /\ before["food_packs"] < FoodCostPerCrew => AddedCrews = 0

\* a rebuild cycle in which the food pays fewer crews than were asked for
C20_Witness ==
    /\ CycleIn("rebuild")
    /\ AddedCrews > 0
    /\ AddedCrews < MinCrewsForRebuild - last.envs[5].resources["repair_crews"]
    /\ last.envs[6].resources["food_packs"] < FoodCostPerCrew

\* b differs from a only as calls of use_resource and save_victims can make
\* it differ: what leaves the ledger is counted as used, what leaves
\* victims is counted as saved, and nothing else changes
ByOperations(a, b) ==
    /\ \A k \in ResourceNames :
          a.resources[k] - b.resources[k]
             = b.resources_used[k] - a.resources_used[k]
    /\ a.victims - b.victims = b.victims_saved - a.victims_saved
    /\ [b EXCEPT !.resources = a.resources,
                 !.resources_used = a.resources_used,
                 !.victims = a.victims,
                 !.victims_saved = a.victims_saved] = a

\* C21: in every cycle, what the act of each agent changes of the ledger
\* and of the disaster state is what Environment operations change: no act
\* writes a ledger count or a state field by itself.
C21_OnlyOperations ==
    CycleDone =>
        \A i \in 1..Len(AgentNames) :
           ByOperations(last.envs[i], last.envs[i + 1])

\* the last call was a trigger, by request or direct, with a scenario or an
\* intensity that is not allowed
InvalidTrigger ==
    /\ last.op \in {"start", "trigger_disaster"}
    /\ \/ last.scenario \notin {"earthquake", "flood", "wildfire"}
       \/ last.intensity < 10
       \/ last.intensity > 100

\* C22 as stated: no trigger with a scenario other than earthquake, flood,
\* wildfire or an intensity outside [0.1, 1.0] takes effect; it ends in an
\* error.
C22_EveryTriggerValidated ==
    InvalidTrigger => last.op = "start" /\ last.status = "error"

\* C22: a request to /start with a scenario other than earthquake, flood,
\* wildfire or an intensity outside [0.1, 1.0] ends in an error and leaves
\* the environment, the bus, the orchestrator and the agents as they were.
C22_RequestRejected ==
    [][(last' # last /\ last'.op = "start"
          /\ (\/ last'.scenario \notin {"earthquake", "flood", "wildfire"}
              \/ last'.intensity < 10
              \/ last'.intensity > 100))
       => /\ last'.status = "error"
          /\ UNCHANGED <<env, bus, orch, agents>>]_vars

\* a request rejected while a disaster is on and its messages are on the bus
C22_Witness ==
    /\ InvalidTrigger /\ last.op = "start" /\ last.status = "error"
    /\ env.phase = "response" /\ bus.counter > 0 /\ orch.cycle_count > 0

\* C23: after an earthquake of intensity 1.0 with drawn resources, repeated
\* cycles bring victims to 0 and the phase to rebuild, given that the
\* aftershock draw does not succeed for ever.
C23_LeavesResponse == <>(env.phase = "rebuild" /\ env.victims = 0)

\* rebuild is reached after a tick with an aftershock
C23_Witness ==
    /\ env.phase = "rebuild" /\ env.victims = 0
    /\ ext.aftershocks > 0
    /\ env.stats.victims_saved >= env.stats.total_victims_initial

\* the last n entries of s, none when n = 0
LastOf(s, n) == SubSeq(s, Len(s) - Min(n, Len(s)) + 1, Len(s))

\* C24: read_recent(count) with count >= 0 returns the last
\* min(count, length of history) entries of the history in their order,
\* never more than count, and leaves the bus as it was.
C24_ReadRecent ==
    last.op = "read_recent" =>
        /\ last.ret = LastOf(last.pre.history, last.count)
        /\ Len(last.ret) <= last.count
        /\ bus = last.pre

\* C25: after clear_old_messages(keep_recent) with keep_recent >= 0 the
\* active list is its last min(keep_recent, previous length) entries, at
\* most keep_recent of them, and the history, the cursors and the id
\* counter are as before.
C25_ClearOld ==
    last.op = "clear_old_messages" =>
        /\ bus.messages = LastOf(last.pre.messages, last.keep_recent)
        /\ Len(bus.messages) <= last.keep_recent
        /\ bus = [last.pre EXCEPT !.messages = bus.messages]

\* C26: the history holds at most max_history messages: after n sends
\* since construction or reset it is the min(n, max_history) messages sent
\* last, in id order, whatever reads and compactions came between; and
\* get_history(since_id) returns the history entries with id > since_id in
\* their order and leaves the bus as it was.
C26_History ==
    /\ Len(bus.history) <= bus.max_history
    /\ Len(obsv) = bus.counter
    /\ bus.history = LastOf(obsv, bus.max_history)
    /\ \A i, j \in DOMAIN bus.history :
          i < j => bus.history[i].id < bus.history[j].id
    /\ last.op = "get_history" =>
          LET h == last.pre.history
              older == {i \in DOMAIN h : h[i].id <= last.since_id}
          IN /\ last.ret = SubSeq(h, Cardinality(older) + 1, Len(h))
             /\ bus = last.pre

\* three sends into a history of two, the active list drained, and a
\* get_history that returns the later of the two entries kept
C26_Witness ==
    /\ bus.counter > bus.max_history
    /\ Len(bus.history) = bus.max_history
    /\ bus.messages = << >>
    /\ last.op = "get_history" /\ last.since_id = bus.counter - 1
    /\ Len(last.ret) = 1 /\ last.ret[1].id = bus.counter

\* thread t is inside a cycle: past the pause flag, before the return
MidCycle(t) == thr.pc[t] \in {"act", "update", "compact"}

\* C27: while a thread is inside a cycle, a step of another thread changes
\* neither the orchestrator nor the environment, the bus or the agents,
\* and does not bring that thread into a cycle of its own: pause, resume,
\* reset and a second run_cycle take effect only after the return.
C27_CycleAtomic ==
    [][\A t, u \in Threads :
          (MidCycle(t) /\ u # t
             /\ <<thr.pc[u], thr.step[u]>> # <<thr'.pc[u], thr'.step[u]>>)
          => /\ UNCHANGED <<env, bus, orch, agents>>
             /\ ~MidCycle(u)'
             /\ MidCycle(t)']_vars

\* one thread is at its third agent while the other waits for the lock to
\* reset
C27_Witness ==
    \E t, u \in Threads :
       /\ thr.pc[t] = "act" /\ thr.step[t] = 3
       /\ thr.pc[u] = "acquire" /\ thr.op[u] = "reset"
       /\ thr.owner = t

\* a caller has changed a part of a value it was handed
Written == last.op = "write"

\* C28: changing any part of a value that get_observation, read_all,
\* read_recent or get_history returned changes neither the state of the
\* Environment nor a message stored in the active list or the history.
C28_NoAliasing ==
    Written => LiveValue(obsv, env, bus) = last.live

\* the keys of the returned value itself, and of the dicts copied one
\* level, are the caller's own
C28_OwnKeys ==
    (Written /\ last.key \notin
        {"earthquake", "flood", "wildfire", "id", "type", "sender",
         "priority", "ts", "victims"})
    => LiveValue(obsv, env, bus) = last.live

\* the alerts of the reflex agent among the messages of the last cycle
ReflexAlerts ==
    SelectSeq(CycleMessages,
              LAMBDA m : m.type = "alert" /\ m.sender = "ReflexAgent")

\* the reflex agent observed the response phase with the disaster active
ReflexObserved == CycleIn("response") /\ last.envs[1].disaster

\* C29: in every cycle in which the reflex agent observes the response
\* phase with the disaster active it sends exactly one alert, of priority
\* 10 when the severity is high or critical and of priority 5 otherwise.
C29_OneAlert ==
    ReflexObserved =>
        /\ Len(ReflexAlerts) = 1
        /\ ReflexAlerts[1].priority =
              (IF ReflexAlerts[1].payload.severity \in {"high", "critical"}
               THEN 10 ELSE 5)

\* never two alerts in a cycle, and the priority of an alert follows its
\* severity
C29_AtMostOne ==
    CycleDone =>
        /\ Len(ReflexAlerts) <= 1
        /\ \A i \in DOMAIN ReflexAlerts :
              ReflexAlerts[i].priority =
                 (IF ReflexAlerts[i].payload.severity \in {"high", "critical"}
                  THEN 10 ELSE 5)

\* the crews the rebuild agent of the last cycle asked for, and the crews
\* the food it found can pay
Needed == MinCrewsForRebuild - last.envs[5].resources["repair_crews"]

Fundable == last.envs[5].resources["food_packs"] \div FoodCostPerCrew

\* the last cycle's repair_request asked for more crews than the food pays
ShortOfFood == CycleIn("rebuild") /\ Needed > 0 /\ Needed > Fundable

CycleBlocked == OfType(CycleMessages, "repair_blocked")

\* the act of the rebuild agent raised no error and added the crews the
\* food pays
ClampedToFood ==
    /\ last.ret.agent_results[5] =
          [agent |-> "RebuildAgent", status |-> "success"]
    /\ last.envs[6].resources["repair_crews"]
          - last.envs[5].resources["repair_crews"] = Max(0, Fundable)

\* C30 as stated: whenever the repair_request asks for more crews than the
\* food pays, the act raises no error, adds floor(food / 5) crews and sends
\* a repair_blocked message in that cycle, also when it added some crews.
C30_BlockedWhenShort ==
    ShortOfFood => ClampedToFood /\ CycleBlocked # << >>

\* C30 amended: in such a cycle the act raises no error and adds
\* floor(food / 5) crews; it sends one repair_blocked message, naming the
\* crews asked for, when the food pays no crew at all, and one repair_alloc
\* message and no repair_blocked message when the food pays some.
C30_BlockedWhenUnfunded ==
    ShortOfFood =>
        /\ ClampedToFood
        /\ IF Fundable > 0
           THEN /\ CycleBlocked = << >>
                /\ Len(CycleAllocs) = 1
                /\ CycleAllocs[1].payload.added_crews = Fundable
           ELSE /\ CycleAllocs = << >>
                /\ Len(CycleBlocked) = 1
                /\ CycleBlocked[1].payload.needed = Needed
                /\ CycleBlocked[1].payload.available_food
                      = last.envs[5].resources["food_packs"]

\* a cycle in which the food paid one of the two crews asked for
C30_Witness ==
    /\ ShortOfFood
    /\ Needed = 2 /\ Fundable = 1
    /\ Len(CycleAllocs) = 1
    /\ CycleBlocked = << >>

\* the milestone whose band [m, m + 5) holds the progress p, as a set
BandOf(p) == {m \in MilestoneSet : p >= m * 100 /\ p < (m + 5) * 100}

CycleMilestones == OfType(CycleMessages, "milestone")

\* C31: within one rebuild phase the rebuild agent sends at most one
\* milestone message for each of 25, 50, 75 and 90: it is not sent again in
\* a later tick in which the progress is still in the band.
C31_MilestoneOnce ==
    env.phase \in {"rebuild", "recovered"} =>
        \A m \in MilestoneSet : obsv[m] <= 1

\* every rebuild cycle sends the milestone of the band its progress lies
\* in, and no other
C31_MilestoneInBand ==
    CycleIn("rebuild") =>
        {CycleMilestones[i].payload.milestone : i \in DOMAIN CycleMilestones}
            = BandOf(last.envs[5].rebuild_progress)
        /\ Len(CycleMilestones) <= 1

CycleStatus == OfType(CycleMessages, "repair_status")

\* what the rebuild agent of the last cycle observed
ObservedCrews == last.envs[5].resources["repair_crews"]

ObservedRate ==
    Max(10, ObservedCrews * Params.rebuild_factor_per_crew
            + last.envs[5].resources["drones"] * 15)

ObservedRemaining == Max(0, 10000 - last.envs[5].rebuild_progress)

\* C32: in every rebuild cycle the rebuild agent sends one repair_status
\* whose estimated_steps_remaining is the remaining progress divided by the
\* progress of one step, rounded up, with crews > 0, and -1 with no crews.
C32_EstimateCeil ==
    CycleIn("rebuild") =>
        /\ Len(CycleStatus) = 1
        /\ CycleStatus[1].payload.estimated_steps_remaining =
              (IF ObservedCrews > 0
               THEN CeilDiv(ObservedRemaining, ObservedRate) ELSE -1)

\* the same with the quotient cut to a whole number
C32_EstimateFloor ==
    CycleIn("rebuild") =>
        /\ Len(CycleStatus) = 1
        /\ CycleStatus[1].payload.estimated_steps_remaining =
              (IF ObservedCrews > 0
               THEN ObservedRemaining \div ObservedRate ELSE -1)

\* the update of the last cycle started a disaster from the recovered phase
Retriggered == CycleIn("recovered") /\ env.phase = "response"

\* the disaster update starts: one of the three scenarios, an intensity in
\* [0.1, 1.0], time_step 0
NewDisaster ==
    /\ env.scenario \in {"earthquake", "flood", "wildfire"}
    /\ env.seismic_level >= 10 /\ env.seismic_level <= 100
    /\ env.time_step = 0
    /\ env.disaster

\* C33 as stated: the update that brings the cooldown counter to 0 starts
\* the new disaster, so a cooldown of c drawn at entry gives c updates in
\* the recovered phase before the phase is response again.
C33_CooldownTicks ==
    /\ obsv.entry > 0 => obsv.entry \in 2..6
    /\ Retriggered => obsv.ticks = obsv.entry /\ NewDisaster

\* C33 amended: an update in the recovered phase lowers a positive cooldown
\* counter by one and starts nothing; the update that finds the counter at
\* 0 starts the new disaster.  A cooldown of c drawn at entry (2..6) gives
\* c + 1 updates in the recovered phase before the phase is response
\* again, and the new disaster has one of the three scenarios, an
\* intensity in [0.1, 1.0] and time_step 0.
C33_CooldownPlusOne ==
    /\ obsv.entry > 0 => obsv.entry \in 2..6
    /\ env.phase = "recovered" =>
          env.cooldown_counter = obsv.entry - obsv.ticks
    /\ CycleIn("recovered") =>
          IF last.envs[1].cooldown_counter > 0
          THEN env.phase = "recovered"
          ELSE Retriggered
    /\ Retriggered => obsv.ticks = obsv.entry + 1 /\ NewDisaster

\* a cooldown of 6 ran out and the seventh update started a flood
C33_Witness ==
    /\ Retriggered
    /\ obsv.entry = 6 /\ obsv.ticks = 7
    /\ env.scenario = "flood"

\* a rebuild phase that no draw advances: no crews and no drones to add
\* progress, and not the food to recruit one crew
Stalled ==
    /\ env.phase = "rebuild"
    /\ env.rebuild_progress < Params.rebuild_required
    /\ MaxFromFood(env) <= 0
    /\ \A f \in RebuildFactors : RebuildIncrement(env, f) = 0

\* C34: from every rebuild state, whatever ledger the trigger accepted,
\* repeated cycles reach the recovered phase: no rebuild state is one that
\* the cycles cannot leave.
C34_NeverStalled == ~Stalled

\* a stalled rebuild phase stays stalled, at the same progress, whatever
\* the draws of the cycle
C34_StalledForever ==
    [][Stalled => (Stalled' /\ env'.rebuild_progress = env.rebuild_progress)]_vars

\* every other rebuild phase explored is recovered before the cycles end
C34_OthersRecover ==
    (ext.ticks = MaxRebuildTicks /\ env.phase = "rebuild") => Stalled

\* the resources that only use_resource takes from
CountedNames == {"ambulances", "drones", "medical_kits", "food_packs"}

\* C35: from a trigger_disaster until the disaster's rebuild phase ends,
\* in every state reached by cycles, what is left of a resource and what
\* was used of it add up to the snapshot the trigger took, for ambulances,
\* drones, medical kits and food packs; ambulances and drones stay at
\* their snapshot, and right after the trigger nothing is counted as used.
C35_LedgerConserved ==
    /\ env.phase \in {"response", "rebuild"} =>
          /\ \A r \in CountedNames :
                env.resources[r] + env.resources_used[r]
                   = env.initial_resources[r]
          /\ \A r \in {"ambulances", "drones"} :
                env.resources[r] = env.initial_resources[r]
    /\ last.op = "trigger_disaster" =>
          /\ \A r \in ResourceNames : env.resources_used[r] = 0
          /\ env.initial_resources = env.resources

\* a rebuild cycle after which medical kits and food packs were used
C35_Witness ==
    /\ CycleIn("rebuild")
    /\ env.phase = "rebuild"
    /\ env.resources_used["medical_kits"] > 0
    /\ env.resources_used["food_packs"] > 5
    /\ env.resources["food_packs"] < env.initial_resources["food_packs"]

\* victims and saved victims together
Accounted(e) == e.victims + e.victims_saved

\* C36: save_victims(count) with count >= 0 returns min(count, victims),
\* lowers victims by it and raises victims_saved by it; in every state of a
\* disaster, victims and saved victims add up to the victims the trigger
\* counted and those the aftershocks added since; only an update with an
\* aftershock adds victims, and victims_saved does not decrease during the
\* disaster.
C36_VictimsAccounted ==
    /\ (last.op = "save_victims" /\ last.count >= 0) =>
          /\ last.ret = Min(last.count, last.pre.victims)
          /\ env.victims = last.pre.victims - last.ret
          /\ env.victims_saved = last.pre.victims_saved + last.ret
    /\ env.phase # "idle" =>
          Accounted(env) = env.stats.total_victims_initial + obsv.added
    /\ (CycleDone /\ last.envs[1].phase \in {"response", "rebuild"}) =>
          /\ \A i \in 1..5 :
                /\ Accounted(last.envs[i + 1]) = Accounted(last.envs[i])
                /\ last.envs[i + 1].victims_saved >= last.envs[i].victims_saved
          /\ env.victims_saved = last.envs[6].victims_saved
          /\ env.victims >= last.envs[6].victims
          /\ env.victims > last.envs[6].victims => env.aftershock

\* a response cycle in which the utility agent saved victims and the
\* aftershock of the update added some
C36_Witness ==
    /\ CycleIn("response")
    /\ last.envs[5].victims_saved > last.envs[4].victims_saved
    /\ env.victims > last.envs[6].victims
    /\ obsv.added > 0

\* the rescue messages UtilityAgent sent in the last cycle
CycleRescues ==
    SelectSeq(OfType(CycleMessages, "rescue"),
              LAMBDA m : m.sender = "UtilityAgent")

\* what the resources r can rescue in one step
RescuePotential(r) ==
    r["ambulances"] * 500 + r["drones"] * 200
    + Min(r["medical_kits"], 5) * 50 + Min(r["food_packs"], 3) * 30

\* C37: every rescue message UtilityAgent sends in a cycle carries an
\* actual_victims_saved equal to its expected_victims_helped, which is the
\* smaller of the victims before the act and ambulances x 500 + drones x 200
\* + min(medical_kits, 5) x 50 + min(food_packs, 3) x 30, and equal to the
\* number by which the act lowered victims.
C37_ActualIsExpected ==
    CycleDone =>
       \A k \in DOMAIN CycleRescues :
          LET p == CycleRescues[k].payload
          IN /\ "actual_victims_saved" \in DOMAIN p
             /\ p.actual_victims_saved = p.expected_victims_helped
             /\ p.expected_victims_helped
                   = Min(last.envs[4].victims,
                         RescuePotential(last.envs[4].resources))
             /\ p.actual_victims_saved
                   = last.envs[4].victims - last.envs[5].victims

\* a rescue of fewer victims than the resources could reach, with fewer
\* medical kits allocated than a step may use
C37_Witness ==
    /\ CycleDone
    /\ Len(CycleRescues) = 1
    /\ LET p == CycleRescues[1].payload
       IN /\ p.actual_victims_saved > 0
          /\ p.actual_victims_saved
                < RescuePotential(last.envs[4].resources)
          /\ p.allocation["medical_kits"]
                < Min(last.envs[4].resources["medical_kits"], 5)

\* the disaster flag goes with the phases response and rebuild, and nothing
\* of a disaster is left in the phases idle and recovered
PhasesAgree(o) ==
    /\ o.disaster <=> o.phase \in {"response", "rebuild"}
    /\ o.phase \in {"idle", "recovered"} =>
          /\ o.victims = 0
          /\ o.blocked = {}
          /\ ~o.roads_blocked
          /\ o.affected_nodes = {}
          /\ o.affected_edges = {}

\* C38: in every state reached by trigger_disaster, run_cycle and reset, and
\* in every snapshot get_observation returns, disaster is true exactly in
\* the phases response and rebuild, and in the phases idle and recovered
\* there are no victims, no blocked edge, roads_blocked is false and the
\* affected nodes and edges are empty.
C38_PhasesAgree ==
    /\ PhasesAgree(Snapshot(env))
    /\ PhasesAgree(obsv)

\* a snapshot of the recovered phase taken after a disaster that had
\* victims and blocked edges, and a state in response after it
C38_Witness ==
    /\ obsv.phase = "recovered"
    /\ env.stats.disasters_completed = 1
    /\ env.stats.total_victims_initial > 0
    /\ env.phase = "response"
    /\ last.op = "trigger_disaster"

\* C39: in every state reached by trigger_disaster from any phase, cycles
\* and reset, every blocked edge is an affected edge of the current
\* disaster: it is in affected_edges and touches a node of affected_nodes.
C39_BlockedAffected ==
    /\ env.blocked \subseteq env.affected_edges
    /\ env.blocked \subseteq AffectedEdges(env.affected_nodes)

\* no act and no update blocks an edge, and an update unblocks edges only
\* in the rebuild phase
C39_BlockedByTrigger ==
    CycleDone =>
       /\ \A k \in 1..6 : last.envs[k].blocked = last.envs[1].blocked
       /\ env.blocked \subseteq last.envs[1].blocked
       /\ env.blocked # last.envs[1].blocked =>
             last.envs[1].phase = "rebuild"

\* C40: for every whole-number argument, zero and negative ones included,
\* use_resource does not raise a ledger count or lower a used-counter,
\* save_victims does not raise victims or lower victims_saved, and the value
\* returned lies between 0 and the amount asked for.
C40_NeverBackwards ==
    /\ last.op = "use_resource" =>
          /\ \A k \in DOMAIN env.resources :
                /\ env.resources[k] <= last.pre.resources[k]
                /\ env.resources_used[k] >= last.pre.resources_used[k]
          /\ 0 <= last.ret
          /\ last.ret <= Max(0, last.amount)
    /\ last.op = "save_victims" =>
          /\ env.victims <= last.pre.victims
          /\ env.victims_saved >= last.pre.victims_saved
          /\ 0 <= last.ret
          /\ last.ret <= Max(0, last.count)
=============================================================================
